---- MODULE Spec2Model ----
(***************************************************************************)
(* Execution engine of the cycle controller (main/cycle.c): the timeline   *)
(* builder, the batched esp_timer scheduler, the event dispatcher, the     *)
(* sensor trigger monitor, the phase loop of run_cycle and the skip / stop *)
(* commands issued from the WebSocket task (main/ws_cycle.c).              *)
(*                                                                         *)
(* Three execution contexts are modelled: the cycle_runner task (variable  *)
(* pc), the esp_timer dispatch context (EventTimerFire, BatchTimerFire)    *)
(* and the command task (variable cmd_pc).  The target is the single-core  *)
(* ESP32-C3: the esp_timer task has the highest priority, the HTTP server  *)
(* task that runs ws_handler comes next, and cycle_runner is created with  *)
(* priority 2 (cycle.c, cycle_run_loaded_cycle).  So a timer callback can  *)
(* run between any two steps of the other two, a command can run between  *)
(* any two steps of cycle_runner, and cycle_runner does not run while a    *)
(* command is in progress.  Time is a clock that advances in steps of      *)
(* MIN_DELAY_US; timer callbacks are dispatched in alarm order and before  *)
(* the clock moves past their alarm.                                       *)
(***************************************************************************)
EXTENDS Integers, Sequences, FiniteSets, TLC

\* ------------------------------------------------------------------ bounds
\* BATCH_SIZE is 200 and MAX_EVENTS_PER_PHASE 800/1600 in the firmware; the
\* model keeps their roles and scales them down.
BATCH_SIZE == 2
MAX_EVENTS_PER_PHASE == 16
\* The pool limits of the loader (20 phases, 6 components per phase, 12 motor
\* configs, 5000 pattern steps, 20 sensor triggers in the firmware), scaled
\* down.
MAX_PHASES == 3
MAX_COMPONENTS_PER_PHASE == 2
MAX_MOTOR_CONFIGS == 3
MAX_MOTOR_STEPS == 4
MAX_SENSOR_TRIGGERS == 1
\* PHASE_SENSOR_COOLDOWN_MS is 15000 in the firmware, scaled down.
PHASE_SENSOR_COOLDOWN_MS == 2
\* The clock reading saturates at HorizonMs milliseconds after phase start.
\* No fire time of the catalogue nor the cooldown lies beyond it, so every
\* comparison the code makes against the clock is unaffected.
HorizonMs == 4
\* Number of commands the command task may issue, number of esp_timer_create
\* failures that may occur.
MaxCmds == 2
MaxFaults == 1
\* Number of times the loaded cycle may be started.
MaxRuns == 1
\* A capacity no timeline of the builder inputs reaches.
BuildCapacity == 32

\* ------------------------------------------------------- program constants
RETRACTOR_PIN == 7
DETERGENT_VALVE_PIN == 8
COLD_VALVE_PIN == 5
DRAIN_PUMP_PIN == 19
HOT_VALVE_PIN == 9
SOFT_VALVE_PIN == 18
MOTOR_ON_PIN == 4
MOTOR_DIRECTION_PIN == 10
NUM_COMPONENTS == 8
GPIO_NUM_NC == -1
MIN_DELAY_US == 1000
NO_TARGET == -1
STOP_TARGET == -2

all_pins ==
    << RETRACTOR_PIN, DETERGENT_VALVE_PIN, COLD_VALVE_PIN, DRAIN_PUMP_PIN,
       HOT_VALVE_PIN, SOFT_VALVE_PIN, MOTOR_ON_PIN, MOTOR_DIRECTION_PIN >>

PinSet == { all_pins[k] : k \in 1..NUM_COMPONENTS }

COMPONENT_PIN_MAP ==
    << [compId |-> "Retractor",       pin |-> RETRACTOR_PIN],
       [compId |-> "Cold Valve",      pin |-> COLD_VALVE_PIN],
       [compId |-> "Detergent Valve", pin |-> DETERGENT_VALVE_PIN],
       [compId |-> "Drain Pump",      pin |-> DRAIN_PUMP_PIN],
       [compId |-> "Hot Valve",       pin |-> HOT_VALVE_PIN],
       [compId |-> "Soft Valve",      pin |-> SOFT_VALVE_PIN],
       [compId |-> "Motor",           pin |-> MOTOR_ON_PIN],
       [compId |-> "Motor Direction", pin |-> MOTOR_DIRECTION_PIN] >>

\* A pointer is modelled as a sequence: empty for NULL, else its one target.
NULL == << >>

Min(a, b) == IF a < b THEN a ELSE b

\* Times are uint32 milliseconds in the code; the catalogue's times stay far
\* below 2^32, so the sums below never wrap.

\* ------------------------------------------------------- timeline builder
resolve_pin(compId) ==
    LET hits == { k \in 1..Len(COMPONENT_PIN_MAP) :
                    COMPONENT_PIN_MAP[k].compId = compId }
    IN  IF hits = {} THEN GPIO_NUM_NC
        ELSE COMPONENT_PIN_MAP[CHOOSE k \in hits : \A j \in hits : k <= j].pin

Event(fire_time_us, type, pin, level) ==
    [fire_time_us |-> fire_time_us, type |-> type, pin |-> pin, level |-> level]

\* A pattern step whose motor is switched off at once.
MotorStepEventsNoDuration(phase_base_ms, t_ms, step, written, max_events) ==
    IF written + 3 <= max_events
    THEN << Event((phase_base_ms + t_ms) * 1000, "EVENT_ON", MOTOR_DIRECTION_PIN,
                  IF step.direction = "ccw" THEN 1 ELSE 0),
            Event((phase_base_ms + t_ms) * 1000, "EVENT_ON", MOTOR_ON_PIN, 0),
            Event((phase_base_ms + t_ms) * 1000, "EVENT_OFF", MOTOR_ON_PIN, 1) >>
    ELSE << >>

\* One pattern step of append_motor_events: up to three events, each written
\* only while written < max_events.
MotorStepEvents(phase_base_ms, t_ms, step, written, max_events) ==
    LET dir_level == IF step.direction = "ccw" THEN 1 ELSE 0
        e1 == IF written < max_events
              THEN << Event((phase_base_ms + t_ms) * 1000, "EVENT_ON",
                            MOTOR_DIRECTION_PIN, dir_level) >>
              ELSE << >>
        w1 == written + Len(e1)
        e2 == IF w1 < max_events
              THEN << Event((phase_base_ms + t_ms) * 1000, "EVENT_ON",
                            MOTOR_ON_PIN, 0) >>
              ELSE << >>
        w2 == w1 + Len(e2)
        off_ms == (t_ms + step.step_time_ms)
        e3 == IF w2 < max_events
              THEN << Event((phase_base_ms + off_ms) * 1000, "EVENT_OFF",
                            MOTOR_ON_PIN, 1) >>
              ELSE << >>
    IN  e1 \o e2 \o e3

RECURSIVE MotorLoop(_, _, _, _, _, _)
\* k counts the (r, p) iterations of the two nested loops, row-major.
MotorLoop(mc, phase_base_ms, t_ms, k, out, max_events) ==
    IF mc.repeat_times <= 0 \/ k >= mc.repeat_times * Len(mc.pattern)
    THEN out
    ELSE LET step == mc.pattern[(k % Len(mc.pattern)) + 1]
             evs  == MotorStepEvents(phase_base_ms, t_ms, step, Len(out), max_events)
         IN  MotorLoop(mc, phase_base_ms,
                       (t_ms + step.step_time_ms + step.pause_time_ms),
                       k + 1, out \o evs, max_events)

\* A motor expansion that ignores the capacity it is given.
AppendMotorEventsUncapped(c, phase_base_ms, max_events) ==
    IF c.motor_cfg = NULL THEN << >>
    ELSE MotorLoop(c.motor_cfg[1], phase_base_ms, c.start_ms, 0, << >>, BuildCapacity)

append_motor_events(c, phase_base_ms, max_events) ==
    IF c.motor_cfg = NULL THEN << >>
    ELSE MotorLoop(c.motor_cfg[1], phase_base_ms, c.start_ms, 0, << >>, max_events)

\* A normal-component branch that does not skip unknown roles.
SimpleEventsKeepUnknown(phase, c, idx, max_events) ==
    << Event((phase.start_time_ms + c.start_ms) * 1000, "EVENT_ON",
             resolve_pin(c.compId), 0),
       Event((phase.start_time_ms + c.start_ms + c.duration_ms) * 1000, "EVENT_OFF",
             resolve_pin(c.compId), 1) >>

\* The events one non-motor component contributes when idx events are
\* already written.
SimpleEvents(phase, c, idx, max_events) ==
    LET pin == resolve_pin(c.compId)
        on  == IF idx < max_events
               THEN << Event((phase.start_time_ms + c.start_ms) * 1000,
                             "EVENT_ON", pin, 0) >>
               ELSE << >>
        off == IF idx + Len(on) < max_events
               THEN << Event((phase.start_time_ms + c.start_ms + c.duration_ms) * 1000,
                             "EVENT_OFF", pin, 1) >>
               ELSE << >>
    IN  IF pin = GPIO_NUM_NC THEN << >> ELSE on \o off

RECURSIVE BuildLoop(_, _, _, _)
BuildLoop(phase, i, out, max_events) ==
    IF i > Len(phase.components) \/ Len(out) >= max_events
    THEN out
    ELSE LET c == phase.components[i]
         IN  IF c.has_motor /\ c.motor_cfg # NULL
             THEN BuildLoop(phase, i + 1,
                            out \o append_motor_events(c, phase.start_time_ms,
                                                       max_events - Len(out)),
                            max_events)
             ELSE BuildLoop(phase, i + 1,
                            out \o SimpleEvents(phase, c, Len(out), max_events),
                            max_events)

build_timeline_from_phase(phase, max_events) ==
    BuildLoop(phase, 1, << >>, max_events)

\* ------------------------------------------------------- phase catalogue
Simple(compId, start_ms, duration_ms) ==
    [compId |-> compId, start_ms |-> start_ms, duration_ms |-> duration_ms,
     has_motor |-> FALSE, motor_cfg |-> NULL]

Motor(start_ms, repeat_times, pattern) ==
    [compId |-> "Motor", start_ms |-> start_ms, duration_ms |-> 0,
     has_motor |-> TRUE,
     motor_cfg |-> << [repeat_times |-> repeat_times, pattern |-> pattern] >>]

Step(step_time_ms, pause_time_ms, direction) ==
    [step_time_ms |-> step_time_ms, pause_time_ms |-> pause_time_ms,
     direction |-> direction]

Trigger(type, threshold, trigger_above) ==
    << [type |-> type, threshold |-> threshold, trigger_above |-> trigger_above] >>

MkPhase(id, components, sensor_trigger) ==
    [id |-> id, start_time_ms |-> 0, components |-> components,
     sensor_trigger |-> sensor_trigger]

\* one valve: 2 events, a single batch
PhSingle == MkPhase("single", << Simple("Cold Valve", 0, 1) >>, NULL)
\* two valves, fire times non-decreasing in array order: 4 events
PhSorted ==
    MkPhase("sorted", << Simple("Cold Valve", 0, 1), Simple("Drain Pump", 3, 1) >>,
            NULL)
\* a motor step followed by a valve that starts earlier than the motor stops:
\* declaration order is not time order
PhUnsorted ==
    MkPhase("unsorted", << Motor(0, 1, << Step(3, 0, "cw") >>),
                           Simple("Cold Valve", 0, 1) >>, NULL)
\* a motor pattern expanding to 18 events, truncated at MAX_EVENTS_PER_PHASE
PhBig ==
    MkPhase("big", << Motor(0, 3, << Step(1, 0, "cw"), Step(0, 0, "ccw") >>) >>,
            NULL)
\* only an unknown role: an empty timeline
PhEmpty == MkPhase("empty", << Simple("Bogus", 0, 1) >>, NULL)
\* one valve with an RPM trigger
PhTrig == MkPhase("trig", << Simple("Hot Valve", 0, 3) >>, Trigger("RPM", 1, TRUE))

\* two batches with an RPM trigger: the first batch lasts beyond the cooldown
PhTrigMulti ==
    MkPhase("trigmulti", << Simple("Hot Valve", 0, 3), Simple("Drain Pump", 3, 1) >>,
            Trigger("RPM", 1, TRUE))

\* What rpm_sensor_get_rpm and pressure_sensor_read_frequency return: a float
\* that is never negative, here its integral part and whether a fractional
\* part follows it.
Reading(whole, frac) == [whole |-> whole, frac |-> frac]

SensorReadings ==
    { Reading(0, FALSE), Reading(1, FALSE), Reading(1, TRUE), Reading(2, FALSE) }

\* No poll is in progress.
NoReading == Reading(0 - 1, FALSE)

\* "(uint32_t)rpm_sensor_get_rpm()": the conversion discards the fraction
ToUint32(reading) == reading.whole


\* Cycles a run may be loaded with (the state left by a successful load).
Cycles ==
    { << PhSorted, PhSingle >>, << PhUnsorted, PhSingle >>, << PhTrig, PhSingle >> }

\* Cycles of the scheduler specification, which has no commands.
SchedCycles ==
    { << PhSorted, PhSingle >>, << PhUnsorted, PhSingle >>, << PhTrig, PhSingle >>,
      << PhBig >>, << PhEmpty, PhSingle >> }

\* ------------------------------------------------------------------ state
VARIABLES
    g_phases,            \* loaded phases (g_phases[0 .. g_num_phases-1])
    g_num_phases,
    has_triggered,       \* sensor_trigger->has_triggered, per loaded phase
    cycle_running,
    target_phase_index,
    current_phase_index,
    gpio,                \* level driven on each output pin
    gpio_shadow,         \* gpio_shadow[NUM_COMPONENTS]
    elapsed_us,          \* esp_timer_get_time() - phase_start_us, saturating
    g_phase_ctx,         \* PhaseRunContext
    sem,                 \* state of the binary semaphore object, if any
    esp_timers,          \* the esp_timer objects, by handle
    pc,                  \* position of the cycle_runner task
    i,                   \* loop index of run_cycle (0-based)
    num_phases,          \* parameter of run_cycle
    cmd_pc,              \* position of the command (WebSocket) task
    cmd_force,           \* force_off_all of the call in progress
    cmds_left,
    runs_left,
    faults_left,
    skip_returned,       \* history: cycle_skip_current_phase(true) has returned
                         \* for the phase in progress
    stop_called,         \* history: cycle_stop was called during this run
    noop_skip,           \* history: a call of cycle_skip_current_phase found
                         \* no active phase and returned, since the last
                         \* phase start
    load_rets,           \* history: what the calls of the load functions
                         \* returned, oldest first
    cmd_data,            \* the "data" of the write_json in progress
    reloaded,            \* history: cycle_unload ran while the cycle started
                         \* last was running
    extra_tasks,         \* cycle_runner tasks created while one existed
    g_motor_cfg_used,    \* motor configs taken from g_motor_cfg_pool
    g_motor_steps_used,  \* steps taken from g_motor_steps_pool
    g_sensor_trigger_used,
    g_motor_cfg_pool,    \* the configs in use: the slice of the step pool
                         \* each pattern points to
    cmd_toggle,          \* pin and state of the toggle_gpio in progress
    created,             \* history: per event index of the phase in progress,
                         \* the number of timers created and started for it
    sensor_read,         \* history: what the sensor returned to the poll
                         \* cycle_runner made last, until its next step
    stale_target         \* history: run_cycle found a skip-to target or the
                         \* stop sentinel recorded when it was entered last

vars ==
    << g_phases, g_num_phases, has_triggered, cycle_running, target_phase_index,
       current_phase_index, gpio, gpio_shadow, elapsed_us, g_phase_ctx, sem,
       esp_timers, pc, i, num_phases, cmd_pc, cmd_force, cmds_left, runs_left,
       faults_left, skip_returned, stop_called, noop_skip, load_rets, cmd_data,
       reloaded, extra_tasks, created, g_motor_cfg_used, g_motor_steps_used,
       g_sensor_trigger_used, g_motor_cfg_pool, cmd_toggle, sensor_read,
       stale_target >>

\* what only the loader and the start and toggle commands write
pool_vars == << g_motor_cfg_used, g_motor_steps_used, g_sensor_trigger_used,
               g_motor_cfg_pool >>
load_vars == << load_rets, cmd_data, reloaded, extra_tasks, pool_vars, cmd_toggle >>
cycle_vars == << g_phases, g_num_phases, load_vars >>
gpio_vars == << gpio, gpio_shadow >>
cmd_vars == << cmd_pc, cmd_force, cmds_left >>
hist_vars ==
    << skip_returned, stop_called, noop_skip, created, sensor_read, stale_target >>

HorizonUs == HorizonMs * 1000

\* Handles of the esp_timer objects that can exist at once before
\* esp_timer_create runs out of memory.
NumHandles == 2 * BATCH_SIZE + 2
Handles == 1..NumHandles
Slots == 1..BATCH_SIZE

FreeTimer == [st |-> "free", cb |-> "none", arg |-> 0, rem |-> 0]

\* memset(&g_phase_ctx, 0, sizeof(g_phase_ctx))
ZeroCtx ==
    [events |-> << >>, timers |-> [s \in Slots |-> 0], num_events |-> 0,
     remaining_events |-> 0, active |-> FALSE, current_batch_idx |-> 0,
     batches_total |-> 0, batch_timer |-> 0, batch_sem |-> 0]

\* A zeroed TimelineEvent, what a stale pointer into the events array reads
\* after the memset.
ZeroEvent == Event(0, "EVENT_ON", 0, 0)

LiveHandles(tm) == { h \in Handles : tm[h].st # "free" }
FreeHandles(tm) == Handles \ LiveHandles(tm)
LowestFree(tm) == CHOOSE h \in FreeHandles(tm) : \A k \in FreeHandles(tm) : h <= k

\* esp_timer_stop + esp_timer_delete
DeleteTimer(tm, h) == [tm EXCEPT ![h] = FreeTimer]

\* A sweep that clears the array but deletes nothing.
SweepLoopKeep(tm, timers, s) == tm

\* A boundary-timer sweep that forgets the handle without deleting the timer.
SweepBatchTimerKeep(tm, ctx) == tm

\* A later-batch delay that ignores the time already spent in the phase.
NextBatchDelayRelative(fire_time_us, time_since_phase_start) ==
    IF fire_time_us > 0 THEN fire_time_us ELSE MIN_DELAY_US

\* the loop "for i < BATCH_SIZE: if (timers[i]) { stop; delete; timers[i] = NULL }"
RECURSIVE SweepLoop(_, _, _)
SweepLoop(tm, timers, s) ==
    IF s > BATCH_SIZE THEN tm
    ELSE SweepLoop(IF timers[s] # 0 THEN DeleteTimer(tm, timers[s]) ELSE tm,
                   timers, s + 1)

\* "if (batch_timer) { stop; delete; batch_timer = NULL }"
SweepBatchTimer(tm, ctx) ==
    IF ctx.batch_timer # 0 THEN DeleteTimer(tm, ctx.batch_timer) ELSE tm

\* delay of an event timer of the first batch (elapsed = now_us - base_us)
FirstBatchDelay(fire_time_us, elapsed) ==
    IF fire_time_us > elapsed THEN fire_time_us - elapsed ELSE MIN_DELAY_US

\* delay of an event timer of a later batch
\* (time_since_phase_start = now_us2 - batch_start_us2)
NextBatchDelay(fire_time_us, time_since_phase_start) ==
    IF fire_time_us > time_since_phase_start
    THEN fire_time_us - time_since_phase_start
    ELSE MIN_DELAY_US

\* delay of the boundary timer of the first batch
FirstBoundaryDelay(last_event_time_us) == last_event_time_us + 1000

\* delay of the boundary timer of a later batch
NextBoundaryDelay(last_event_time_us, time_since_phase_start) ==
    IF last_event_time_us > time_since_phase_start
    THEN (last_event_time_us - time_since_phase_start) + 1000
    ELSE 1000

\* The timer-creation loop of a batch: for each of the count events starting
\* at event index first (1-based), esp_timer_create, esp_timer_start_once and
\* the store into timers[s].  fails is the set of slots whose esp_timer_create
\* fails; it also fails when no handle is left.  later tells the first batch
\* from the later ones.
RECURSIVE CreateLoop(_, _, _, _, _, _, _, _)
CreateLoop(tm, timers, events, s, count, first, fails, later) ==
    IF s > count THEN [tm |-> tm, timers |-> timers]
    ELSE IF s \in fails \/ FreeHandles(tm) = {}
         THEN CreateLoop(tm, timers, events, s + 1, count, first, fails, later)
         ELSE LET h  == LowestFree(tm)
                  ev == events[first + s - 1]
                  d  == IF later THEN NextBatchDelay(ev.fire_time_us, elapsed_us)
                        ELSE FirstBatchDelay(ev.fire_time_us, elapsed_us)
              IN  CreateLoop([tm EXCEPT ![h] = [st |-> "armed", cb |-> "event",
                                                arg |-> first + s - 1, rem |-> d]],
                             [timers EXCEPT ![s] = h],
                             events, s + 1, count, first, fails, later)

\* esp_timer_create + esp_timer_start_once of the boundary ("batch_load") timer
CreateBoundary(tm, delay, fail) ==
    IF fail \/ FreeHandles(tm) = {} THEN [tm |-> tm, h |-> 0]
    ELSE LET h == LowestFree(tm)
         IN  [tm |-> [tm EXCEPT ![h] = [st |-> "armed", cb |-> "batch",
                                         arg |-> 0, rem |-> delay]],
              h |-> h]

\* Choices of failing esp_timer_create calls the fault budget allows.
FailChoices(count) ==
    { f \in [ev : SUBSET (1..count), boundary : BOOLEAN] :
        Cardinality(f.ev) + (IF f.boundary THEN 1 ELSE 0) <= faults_left }

FailCount(f) == Cardinality(f.ev) + (IF f.boundary THEN 1 ELSE 0)

\* A batch count that forgets the partial last batch.
BatchesTotalFloor(n) == n \div BATCH_SIZE

\* "batches_total = (n + BATCH_SIZE - 1) / BATCH_SIZE"
BatchesTotal(n) == (n + BATCH_SIZE - 1) \div BATCH_SIZE

\* No timer has been created for any event of the phase.
NoneCreated == [k \in 1..MAX_EVENTS_PER_PHASE |-> 0]

\* The event indices for which the timer-creation loop, run from the timer
\* table tm and leaving made, has created and started a timer.
CreatedBy(tm, made, count, first) ==
    { first + s - 1 : s \in { t \in 1..count :
                                /\ made.timers[t] # 0
                                /\ tm[made.timers[t]].st = "free"
                                /\ made.tm[made.timers[t]].arg = first + t - 1 } }

CountCreated(cr, ks) ==
    [k \in 1..MAX_EVENTS_PER_PHASE |-> IF k \in ks THEN cr[k] + 1 ELSE cr[k]]

\* No toggle_gpio is in progress.
NoToggle == [pin |-> GPIO_NUM_NC, state |-> 0]

\* No write_json is in progress.
NoData == [kind |-> "none", phases |-> << >>]

\* A Phase after memset(g_phases, 0, sizeof(g_phases)): no id, no component,
\* no trigger.
ZeroPhase == [id |-> "", start_time_ms |-> 0, components |-> << >>,
              sensor_trigger |-> NULL]

\* phases[k - 1] as run_cycle reads it: g_phases is a static array of
\* MAX_PHASES entries, zeroed beyond the loaded ones.
PhaseAt(k) == IF k <= Len(g_phases) THEN g_phases[k] ELSE ZeroPhase

\* ------------------------------------------------------------ the loader
\* A cycle description as the cJSON tree holds it.  JsonOf writes the
\* description that loads as a given phase; the loader reads it back field by
\* field.  The descriptions of the model fit the loader's pools.
JsonOfComponent(c) ==
    [compId |-> c.compId, start |-> c.start_ms, duration |-> c.duration_ms,
     motorConfig |->
        IF c.motor_cfg = NULL THEN NULL
        ELSE << [repeatTimes |-> c.motor_cfg[1].repeat_times,
                 pattern |-> [k \in 1..Len(c.motor_cfg[1].pattern) |->
                                [stepTime  |-> c.motor_cfg[1].pattern[k].step_time_ms,
                                 pauseTime |-> c.motor_cfg[1].pattern[k].pause_time_ms,
                                 direction |-> c.motor_cfg[1].pattern[k].direction]]] >>]

JsonOf(phase) ==
    [id |-> phase.id, startTime |-> phase.start_time_ms,
     components |-> [k \in 1..Len(phase.components) |->
                       JsonOfComponent(phase.components[k])],
     sensorTrigger |->
        IF phase.sensor_trigger = NULL THEN NULL
        ELSE << [type |-> IF phase.sensor_trigger[1].type = "PRESSURE"
                          THEN "Pressure" ELSE phase.sensor_trigger[1].type,
                 threshold |-> phase.sensor_trigger[1].threshold,
                 triggerAbove |-> phase.sensor_trigger[1].trigger_above] >>]

\* An unload that frees the cycle but leaves the pool counts as they are.
UnloadKeepsPools ==
    [phases |-> << >>, cfg_used |-> g_motor_cfg_used,
     steps_used |-> g_motor_steps_used, trig_used |-> g_sensor_trigger_used,
     cfg_pool |-> g_motor_cfg_pool]

\* cycle_unload: the counts and pools it leaves, from which a load starts.
\* cfg_pool lists the motor configs in use, each with the slice of the step
\* pool its pattern points to, if it points to one.
cycle_unload ==
    [phases |-> << >>, cfg_used |-> 0, steps_used |-> 0, trig_used |-> 0,
     cfg_pool |-> << >>]

\* The zero-initialised statics at boot, before app_main loads a cycle.
BootPools ==
    [phases |-> << >>, cfg_used |-> 0, steps_used |-> 0, trig_used |-> 0,
     cfg_pool |-> << >>]

\* the step loop of a motorConfig: the number of steps copied into the pool
\* before "if (g_motor_steps_used >= MAX_MOTOR_STEPS) break"
StepsTaken(pattern_len, steps_used) ==
    IF steps_used >= MAX_MOTOR_STEPS THEN 0
    ELSE Min(pattern_len, MAX_MOTOR_STEPS - steps_used)

\* the component loop body of the loaders: the component parsed from cjson
\* and the pools after it
ParseComponent(cjson, acc) ==
    LET plain == [compId |-> cjson.compId, start_ms |-> cjson.start,
                  duration_ms |-> cjson.duration,
                  has_motor |-> FALSE, motor_cfg |-> NULL]
    IN  IF cjson.motorConfig = NULL \/ acc.cfg_used >= MAX_MOTOR_CONFIGS
        THEN [c |-> plain, acc |-> acc]
        ELSE LET motorCfg == cjson.motorConfig[1]
                 pattern_len == Len(motorCfg.pattern)
                 taken == StepsTaken(pattern_len, acc.steps_used)
                 mc == [repeat_times |-> motorCfg.repeatTimes,
                        pattern |-> [k \in 1..taken |->
                                       Step(motorCfg.pattern[k].stepTime,
                                            motorCfg.pattern[k].pauseTime,
                                            motorCfg.pattern[k].direction)]]
             IN  [c |-> [plain EXCEPT !.has_motor = TRUE, !.motor_cfg = << mc >>],
                  acc |-> [acc EXCEPT
                             !.cfg_used = @ + 1,
                             !.steps_used = @ + taken,
                             !.cfg_pool = Append(@, [has_slice |-> pattern_len > 0,
                                                     steps_start |-> acc.steps_used,
                                                     pattern_len |-> taken])]]

\* the component loop "for (ci = 0; ci < comp_count; ci++)"
RECURSIVE ParseComponents(_, _, _, _, _)
ParseComponents(components, ci, comp_count, out, acc) ==
    IF ci > comp_count THEN [components |-> out, acc |-> acc]
    ELSE LET r == ParseComponent(components[ci], acc)
         IN  ParseComponents(components, ci + 1, comp_count, Append(out, r.c), r.acc)

\* the phase loop body of the loaders
ParsePhase(pjson, acc) ==
    LET comp_count == Min(Len(pjson.components), MAX_COMPONENTS_PER_PHASE)
        r == ParseComponents(pjson.components, 1, comp_count, << >>, acc)
        with_trigger == pjson.sensorTrigger # NULL
                        /\ r.acc.trig_used < MAX_SENSOR_TRIGGERS
        p == [id |-> pjson.id, start_time_ms |-> pjson.startTime,
              components |-> r.components,
              sensor_trigger |->
                 IF ~with_trigger THEN NULL
                 ELSE LET st == pjson.sensorTrigger[1]
                      IN  Trigger(IF st.type = "RPM" THEN "RPM"
                                  ELSE IF st.type = "Pressure" THEN "PRESSURE"
                                  ELSE "UNKNOWN",
                                  st.threshold, st.triggerAbove)]
    IN  [r.acc EXCEPT !.phases = Append(@, p),
                      !.trig_used = IF with_trigger THEN @ + 1 ELSE @]

\* the phase loop "for (pi = 0; pi < num_phases; pi++)"
RECURSIVE ParseLoop(_, _, _, _)
ParseLoop(phases_arr, pi, n_phases, acc) ==
    IF pi > n_phases THEN acc
    ELSE ParseLoop(phases_arr, pi + 1, n_phases, ParsePhase(phases_arr[pi], acc))

\* "num_phases = cJSON_GetArraySize(phases_arr); if (num_phases > MAX_PHASES)
\* num_phases = MAX_PHASES", then the phase loop, from the pools acc
ParsePhases(phases_arr, acc) ==
    ParseLoop(phases_arr, 1, Min(Len(phases_arr), MAX_PHASES), acc)

\* Descriptions: kind "null" is a null pointer, "unparsable" a string
\* cJSON_Parse rejects, "no_phases" a tree whose "phases" is missing or not an
\* array, "missing_data" a write_json without "data", "not_object" a "data"
\* that is not an object, "ok" a tree with a "phases" array.
Desc(kind) == [kind |-> kind, phases |-> << >>]
OkDesc(cycle) == [kind |-> "ok", phases |-> [k \in 1..Len(cycle) |-> JsonOf(cycle[k])]]

\* What a load call leaves: its return value, whether cycle_unload ran, and
\* the loaded phases and pools if it did.
LoadKept(ret) == [ret |-> ret, unloaded |-> FALSE, left |-> BootPools]
LoadDone(ret, left) == [ret |-> ret, unloaded |-> TRUE, left |-> left]

\* cycle_load_from_json_str: cycle_unload, then load_cycle_from_json_str
cycle_load_from_json_str(desc) ==
    IF desc.kind = "null" THEN LoadKept("ESP_FAIL")
    ELSE IF desc.kind # "ok" THEN LoadDone("ESP_FAIL", cycle_unload)
    ELSE LoadDone("ESP_OK", ParsePhases(desc.phases, cycle_unload))

\* load_cycle_from_cjson: cycle_unload, then the "phases" check and the parse
load_cycle_from_cjson(desc) ==
    IF desc.kind = "null" THEN LoadKept("ESP_FAIL")
    ELSE IF desc.kind # "ok" THEN LoadDone("ESP_FAIL", cycle_unload)
    ELSE LoadDone("ESP_OK", ParsePhases(desc.phases, cycle_unload))

TypeOK ==
    /\ g_num_phases = Len(g_phases)
    /\ cycle_running \in BOOLEAN
    /\ target_phase_index \in -2..(g_num_phases + 1)
    /\ current_phase_index \in 0..g_num_phases
    /\ gpio \in [PinSet -> {0, 1}]
    /\ gpio_shadow \in [1..NUM_COMPONENTS -> {0, 1}]
    /\ elapsed_us \in 0..HorizonUs
    /\ g_phase_ctx.timers \in [Slots -> 0..NumHandles]
    /\ g_phase_ctx.remaining_events \in 0..MAX_EVENTS_PER_PHASE
    /\ sem \in {"none", "empty", "given"}
    /\ \A h \in Handles : esp_timers[h].rem >= 0
    /\ cmds_left \in 0..MaxCmds
    /\ faults_left \in 0..MaxFaults

InitRuns(cycles, cmds, faults, runs) ==
    /\ g_phases \in cycles
    /\ g_num_phases = Len(g_phases)
    /\ has_triggered = [p \in 1..Len(g_phases) |-> FALSE]
    /\ cycle_running = FALSE
    /\ target_phase_index = NO_TARGET
    /\ current_phase_index = 0
    /\ gpio = [p \in PinSet |-> 1]
    /\ gpio_shadow = [k \in 1..NUM_COMPONENTS |-> 1]
    /\ elapsed_us = 0
    /\ g_phase_ctx = ZeroCtx
    /\ sem = "none"
    /\ esp_timers = [h \in Handles |-> FreeTimer]
    /\ pc = "idle"
    /\ i = 0
    /\ num_phases = 0
    /\ cmd_pc = "idle"
    /\ cmd_force = FALSE
    /\ cmds_left = cmds
    /\ runs_left = runs
    /\ faults_left = faults
    /\ skip_returned = FALSE
    /\ stop_called = FALSE
    /\ noop_skip = FALSE
    /\ load_rets = << >>
    /\ cmd_data = NoData
    /\ reloaded = FALSE
    /\ extra_tasks = 0
    /\ created = NoneCreated
    /\ sensor_read = NoReading
    /\ stale_target = FALSE
    /\ cmd_toggle = NoToggle
    /\ LET left == ParsePhases(OkDesc(g_phases).phases, BootPools)
       IN  /\ g_motor_cfg_used = left.cfg_used
           /\ g_motor_steps_used = left.steps_used
           /\ g_sensor_trigger_used = left.trig_used
           /\ g_motor_cfg_pool = left.cfg_pool

InitWith(cycles, cmds, faults) == InitRuns(cycles, cmds, faults, MaxRuns)

\* After boot: init_all_gpio has driven every output OFF, a cycle is loaded,
\* nothing runs.
Init == InitWith(Cycles, MaxCmds, MaxFaults)

InitSched == InitWith(SchedCycles, 0, MaxFaults)

\* ------------------------------------------------- sensor trigger monitor
\* check_phase_sensor_trigger with sensor_value the reading of the configured
\* sensor; the result is should_trigger, and has_triggered is latched with it.
\* A monitor that forgets the latch.
NeverAlreadyTriggered(latch) == FALSE

\* check_phase_sensor_trigger: "if (trigger->has_triggered) return false;"
AlreadyTriggered(latch) == latch

\* A monitor without the cooldown.
NeverInCooldown(phase_elapsed_ms) == FALSE

\* check_phase_sensor_trigger: "if (phase_elapsed_ms < PHASE_SENSOR_COOLDOWN_MS)"
InCooldown(phase_elapsed_ms) == phase_elapsed_ms < PHASE_SENSOR_COOLDOWN_MS

check_phase_sensor_trigger(sensor_value) ==
    IF ~cycle_running \/ current_phase_index <= 0
         \/ current_phase_index > g_num_phases
    THEN FALSE
    ELSE LET phase == g_phases[current_phase_index]
         IN  IF phase.sensor_trigger = NULL THEN FALSE
             ELSE LET trigger == phase.sensor_trigger[1]
                      phase_elapsed_ms == elapsed_us \div 1000
                  IN  IF AlreadyTriggered(has_triggered[current_phase_index]) THEN FALSE
                      ELSE IF InCooldown(phase_elapsed_ms) THEN FALSE
                      ELSE IF trigger.type \notin {"RPM", "PRESSURE"} THEN FALSE
                      ELSE IF trigger.trigger_above
                           THEN sensor_value > trigger.threshold
                           ELSE sensor_value < trigger.threshold

\* ------------------------------------------------------ the skip path
\* The output part of cycle_skip_current_phase: "if (force_off_all) ...".
ForceOff(force_off_all) ==
    IF force_off_all
    THEN /\ gpio' = [p \in PinSet |-> 1]
         /\ gpio_shadow' = [k \in 1..NUM_COMPONENTS |-> 1]
    ELSE UNCHANGED gpio_vars

\* cycle_skip_current_phase(force_off_all) run to completion by the caller,
\* for a caller that found the phase active.
SkipWhole(force_off_all) ==
    /\ esp_timers' = SweepBatchTimer(SweepLoop(esp_timers, g_phase_ctx.timers, 1),
                                     g_phase_ctx)
    /\ sem' = IF g_phase_ctx.batch_sem # 0 THEN "none" ELSE sem
    /\ g_phase_ctx' = [g_phase_ctx EXCEPT !.timers = [s \in Slots |-> 0],
                                          !.batch_timer = 0,
                                          !.batch_sem = 0,
                                          !.active = FALSE]
    /\ ForceOff(force_off_all)

\* ------------------------------------------------- the cycle_runner task
\* ws_handler "start_cycle" -> cycle_run_loaded_cycle: creates the task.
StartCycle ==
    /\ pc = "idle"
    /\ cmd_pc = "idle"
    /\ runs_left > 0
    /\ ~cycle_running
    /\ g_num_phases # 0
    /\ pc' = "run_begin"
    /\ runs_left' = runs_left - 1
    /\ reloaded' = FALSE
    /\ UNCHANGED << hist_vars, g_phases, g_num_phases, load_rets, cmd_data,
                    extra_tasks, cmd_toggle, pool_vars, has_triggered, cycle_running, target_phase_index,
                    current_phase_index, gpio_vars, elapsed_us, g_phase_ctx, sem,
                    esp_timers, i, num_phases, cmd_vars, faults_left >>

\* A run_cycle that keeps what the run before left recorded.
TargetKept(target) == target

\* run_cycle: "target_phase_index = -1;" before the loop
TargetAtStart(target) == NO_TARGET

\* cycle_task -> run_cycle(g_phases, g_num_phases), up to the for loop
RunCycleBegin ==
    /\ pc = "run_begin"
    /\ cmd_pc = "idle"
    /\ cycle_running' = TRUE
    /\ target_phase_index' = TargetAtStart(target_phase_index)
    /\ stale_target' = (target_phase_index # NO_TARGET)
    /\ i' = 0
    /\ num_phases' = g_num_phases
    /\ pc' = "loop_check"
    /\ stop_called' = FALSE
    /\ UNCHANGED << skip_returned, noop_skip, created, sensor_read, cycle_vars, has_triggered, current_phase_index, gpio_vars,
                    elapsed_us, g_phase_ctx, sem, esp_timers, cmd_vars, runs_left,
                    faults_left >>

\* head of one iteration of the for loop: the loop condition, the stop check
\* and the skip-to check.  "i = target - 1; continue" leaves i = target for
\* the next evaluation of the loop condition.
LoopCheck ==
    /\ pc = "loop_check"
    /\ cmd_pc = "idle"
    /\ IF i >= num_phases
       THEN /\ pc' = "run_end"
            /\ UNCHANGED << target_phase_index, i, current_phase_index >>
       ELSE IF target_phase_index = STOP_TARGET
       THEN /\ target_phase_index' = NO_TARGET
            /\ pc' = "run_end"
            /\ UNCHANGED << i, current_phase_index >>
       ELSE IF target_phase_index >= 0
       THEN IF target_phase_index >= num_phases
            THEN /\ target_phase_index' = NO_TARGET
                 /\ pc' = "run_end"
                 /\ UNCHANGED << i, current_phase_index >>
            ELSE /\ i' = target_phase_index
                 /\ target_phase_index' = NO_TARGET
                 /\ pc' = "loop_check"
                 /\ UNCHANGED current_phase_index
       ELSE /\ current_phase_index' = i + 1
            /\ pc' = "phase_begin"
            /\ UNCHANGED << target_phase_index, i >>
    /\ UNCHANGED << hist_vars, cycle_vars, has_triggered, cycle_running, gpio_vars, elapsed_us,
                    g_phase_ctx, sem, esp_timers, num_phases, cmd_vars, runs_left,
                    faults_left >>

\* run_phase_with_esp_timer, up to the batch computation: the memset, the
\* semaphore, active = true, the timeline, the clock base.
PhaseBegin ==
    /\ pc = "phase_begin"
    /\ cmd_pc = "idle"
    /\ \E sem_fail \in BOOLEAN :
        /\ sem_fail => faults_left > 0
        /\ faults_left' = IF sem_fail THEN faults_left - 1 ELSE faults_left
        /\ LET events == build_timeline_from_phase(PhaseAt(i + 1),
                                                   MAX_EVENTS_PER_PHASE)
               n == Len(events)
           IN  g_phase_ctx' =
                 [ZeroCtx EXCEPT !.batch_sem = IF sem_fail THEN 0 ELSE 1,
                                 !.active = TRUE,
                                 !.events = events,
                                 !.num_events = n,
                                 !.remaining_events = n,
                                 !.batches_total = BatchesTotal(n),
                                 !.current_batch_idx = 0]
        /\ sem' = IF sem_fail THEN sem ELSE "empty"
    /\ elapsed_us' = 0
    /\ pc' = "load_first"
    /\ skip_returned' = FALSE
    /\ noop_skip' = FALSE
    /\ created' = NoneCreated
    /\ UNCHANGED << stop_called, sensor_read, stale_target, cycle_vars, has_triggered, cycle_running, target_phase_index,
                    current_phase_index, gpio_vars, esp_timers, i, num_phases,
                    cmd_vars, runs_left >>

\* the timers of the first batch and, if batches_total > 1, its boundary timer
LoadFirstBatch ==
    /\ pc = "load_first"
    /\ cmd_pc = "idle"
    /\ LET n == g_phase_ctx.num_events
           batch_end_idx == IF BATCH_SIZE < n THEN BATCH_SIZE ELSE n
       IN  \E f \in FailChoices(batch_end_idx) :
             LET made == CreateLoop(esp_timers, g_phase_ctx.timers,
                                    g_phase_ctx.events, 1, batch_end_idx, 1,
                                    f.ev, FALSE)
                 more == g_phase_ctx.batches_total > 1
                 bt   == IF more
                         THEN CreateBoundary(made.tm,
                                FirstBoundaryDelay(
                                  g_phase_ctx.events[batch_end_idx].fire_time_us),
                                f.boundary)
                         ELSE [tm |-> made.tm, h |-> g_phase_ctx.batch_timer]
             IN  /\ (f.boundary => more)
                 /\ esp_timers' = bt.tm
                 /\ g_phase_ctx' = [g_phase_ctx EXCEPT !.timers = made.timers,
                                                       !.batch_timer = bt.h]
                 /\ faults_left' = faults_left - FailCount(f)
                 /\ created' = CountCreated(created,
                                  CreatedBy(esp_timers, made, batch_end_idx, 1))
    /\ pc' = "batch_check"
    /\ UNCHANGED << skip_returned, stop_called, noop_skip, sensor_read, stale_target, cycle_vars, has_triggered,
                    cycle_running, target_phase_index,
                    current_phase_index, gpio_vars, elapsed_us, sem, i, num_phases,
                    cmd_vars, runs_left >>

MoreBatches ==
    /\ g_phase_ctx.current_batch_idx + 1 < g_phase_ctx.batches_total
    /\ g_phase_ctx.active

\* the condition of "while (current_batch_idx + 1 < batches_total && active)"
\* and the choice between the semaphore and the busy wait
BatchCheck ==
    /\ pc = "batch_check"
    /\ cmd_pc = "idle"
    /\ pc' = IF ~MoreBatches THEN "poll"
             ELSE IF g_phase_ctx.batch_sem # 0 THEN "sem_take"
             ELSE "busy_wait"
    /\ UNCHANGED << hist_vars, cycle_vars, has_triggered, cycle_running, target_phase_index,
                    current_phase_index, gpio_vars, elapsed_us, g_phase_ctx, sem,
                    esp_timers, i, num_phases, cmd_vars, runs_left, faults_left >>

\* the fallback without a semaphore: one evaluation of the inner while
\* condition; vTaskDelay(50 ms) and again while it holds, else break out of
\* the batch loop
BusyWait ==
    /\ pc = "busy_wait"
    /\ cmd_pc = "idle"
    /\ pc' = IF MoreBatches THEN "busy_wait" ELSE "poll"
    /\ UNCHANGED << hist_vars, cycle_vars, has_triggered, cycle_running, target_phase_index,
                    current_phase_index, gpio_vars, elapsed_us, g_phase_ctx, sem,
                    esp_timers, i, num_phases, cmd_vars, runs_left, faults_left >>

\* xSemaphoreTake(batch_sem, portMAX_DELAY) returns once the semaphore is given
SemTake ==
    /\ pc = "sem_take"
    /\ cmd_pc = "idle"
    /\ g_phase_ctx.batch_sem # 0
    /\ sem = "given"
    /\ sem' = "empty"
    /\ pc' = "batch_sweep"
    /\ UNCHANGED << hist_vars, cycle_vars, has_triggered, cycle_running, target_phase_index,
                    current_phase_index, gpio_vars, elapsed_us, g_phase_ctx,
                    esp_timers, i, num_phases, cmd_vars, runs_left, faults_left >>

\* The semaphore was deleted while the task was about to block or blocked on
\* it: FreeRTOS leaves this undefined.  The task either never returns from
\* xSemaphoreTake or returns from it.
SemTakeDeleted ==
    /\ pc = "sem_take"
    /\ cmd_pc = "idle"
    /\ g_phase_ctx.batch_sem = 0
    /\ pc' \in {"hung", "batch_sweep"}
    /\ UNCHANGED << hist_vars, cycle_vars, has_triggered, cycle_running, target_phase_index,
                    current_phase_index, gpio_vars, elapsed_us, g_phase_ctx, sem,
                    esp_timers, i, num_phases, cmd_vars, runs_left, faults_left >>

\* batch transition, first half: delete the previous batch's timers and the
\* boundary timer
BatchSweep ==
    /\ pc = "batch_sweep"
    /\ cmd_pc = "idle"
    /\ esp_timers' = SweepBatchTimer(SweepLoop(esp_timers, g_phase_ctx.timers, 1),
                                     g_phase_ctx)
    /\ g_phase_ctx' = [g_phase_ctx EXCEPT !.timers = [s \in Slots |-> 0],
                                          !.batch_timer = 0]
    /\ pc' = "batch_load"
    /\ UNCHANGED << hist_vars, cycle_vars, has_triggered, cycle_running, target_phase_index,
                    current_phase_index, gpio_vars, elapsed_us, sem, i, num_phases,
                    cmd_vars, runs_left, faults_left >>

\* The batch-transition sweep statement by statement, for the tasks that
\* preempt cycle_runner inside the loop body.  The slot in hand is the lowest
\* one still set: the slots below it were cleared by the passes before, and
\* nothing but this loop and the sweep of cycle_skip_current_phase, which
\* clears every slot, writes the array in between.
SlotInHand(timers) ==
    CHOOSE s \in Slots : timers[s] # 0 /\ \A k \in Slots : timers[k] # 0 => s <= k

\* "esp_timer_stop(timers[i]); esp_timer_delete(timers[i]);"
BatchSweepDelete ==
    /\ pc = "batch_sweep"
    /\ cmd_pc = "idle"
    /\ \E s \in Slots : g_phase_ctx.timers[s] # 0
    /\ esp_timers' = DeleteTimer(esp_timers,
                                 g_phase_ctx.timers[SlotInHand(g_phase_ctx.timers)])
    /\ pc' = "batch_sweep_null"
    /\ UNCHANGED << hist_vars, cycle_vars, has_triggered, cycle_running, target_phase_index,
                    current_phase_index, gpio_vars, elapsed_us, g_phase_ctx, sem, i,
                    num_phases, cmd_vars, runs_left, faults_left >>

\* "timers[i] = NULL;" and the next pass of the loop
BatchSweepNull ==
    /\ pc = "batch_sweep_null"
    /\ cmd_pc = "idle"
    /\ g_phase_ctx' =
          IF \E s \in Slots : g_phase_ctx.timers[s] # 0
          THEN [g_phase_ctx EXCEPT !.timers[SlotInHand(g_phase_ctx.timers)] = 0]
          ELSE g_phase_ctx
    /\ pc' = "batch_sweep"
    /\ UNCHANGED << hist_vars, cycle_vars, has_triggered, cycle_running, target_phase_index,
                    current_phase_index, gpio_vars, elapsed_us, sem, esp_timers, i,
                    num_phases, cmd_vars, runs_left, faults_left >>

\* batch transition, second half: current_batch_idx++, the next batch's
\* timers and ("if (next_events > 0)") a boundary timer
BatchLoad ==
    /\ pc = "batch_load"
    /\ cmd_pc = "idle"
    /\ LET idx == g_phase_ctx.current_batch_idx + 1
           next_batch_start == idx * BATCH_SIZE
           next_batch_end ==
               IF next_batch_start + BATCH_SIZE < g_phase_ctx.num_events
               THEN next_batch_start + BATCH_SIZE ELSE g_phase_ctx.num_events
           next_events == next_batch_end - next_batch_start
       IN  \E f \in FailChoices(next_events) :
             LET made == CreateLoop(esp_timers, g_phase_ctx.timers,
                                    g_phase_ctx.events, 1, next_events,
                                    next_batch_start + 1, f.ev, TRUE)
                 bt   == IF next_events > 0
                         THEN CreateBoundary(made.tm,
                                NextBoundaryDelay(
                                  g_phase_ctx.events[next_batch_end].fire_time_us,
                                  elapsed_us),
                                f.boundary)
                         ELSE [tm |-> made.tm, h |-> g_phase_ctx.batch_timer]
             IN  /\ (f.boundary => next_events > 0)
                 /\ esp_timers' = bt.tm
                 /\ g_phase_ctx' = [g_phase_ctx EXCEPT !.current_batch_idx = idx,
                                                       !.timers = made.timers,
                                                       !.batch_timer = bt.h]
                 /\ faults_left' = faults_left - FailCount(f)
                 /\ created' = CountCreated(created,
                                  CreatedBy(esp_timers, made, next_events,
                                            next_batch_start + 1))
    /\ pc' = "batch_check"
    /\ UNCHANGED << skip_returned, stop_called, noop_skip, sensor_read, stale_target, cycle_vars, has_triggered,
                    cycle_running, target_phase_index,
                    current_phase_index, gpio_vars, elapsed_us, sem, i, num_phases,
                    cmd_vars, runs_left >>

\* one pass of "while (g_phase_ctx.active)" in run_cycle, up to the vTaskDelay
Poll ==
    /\ pc = "poll"
    /\ cmd_pc = "idle"
    /\ IF ~g_phase_ctx.active
       THEN /\ pc' = "cleanup"
            /\ UNCHANGED << has_triggered, g_phase_ctx, sem, esp_timers, gpio_vars,
                            sensor_read >>
       ELSE \E reading \in SensorReadings :
              /\ sensor_read' = reading
              /\ IF check_phase_sensor_trigger(ToUint32(reading))
                 THEN /\ has_triggered' =
                           [has_triggered EXCEPT ![current_phase_index] = TRUE]
                      /\ SkipWhole(TRUE)
                      /\ pc' = "cleanup"
                 ELSE /\ pc' = "sleep"
                      /\ UNCHANGED << has_triggered, g_phase_ctx, sem, esp_timers,
                                      gpio_vars >>
    /\ UNCHANGED << skip_returned, stop_called, noop_skip, created, stale_target, cycle_vars, cycle_running, target_phase_index,
                    current_phase_index, elapsed_us, i, num_phases, cmd_vars,
                    runs_left, faults_left >>

\* vTaskDelay(pdMS_TO_TICKS(100)) returns
Sleep ==
    /\ pc = "sleep"
    /\ cmd_pc = "idle"
    /\ pc' = "poll"
    /\ sensor_read' = NoReading
    /\ UNCHANGED << skip_returned, stop_called, noop_skip, created, stale_target, cycle_vars, has_triggered, cycle_running, target_phase_index,
                    current_phase_index, gpio_vars, elapsed_us, g_phase_ctx, sem,
                    esp_timers, i, num_phases, cmd_vars, runs_left, faults_left >>

\* A sweep between phases that trusts the phase to have cleaned up.
CleanupSweepNone(tm, ctx) == tm

\* run_cycle after the wait loop: stop and delete every handle of the timer
\* array and the boundary timer.
CleanupSweep(tm, ctx) == SweepBatchTimer(SweepLoop(tm, ctx.timers, 1), ctx)

\* the sweep between phases and the loop increment
Cleanup ==
    /\ pc = "cleanup"
    /\ cmd_pc = "idle"
    /\ esp_timers' = CleanupSweep(esp_timers, g_phase_ctx)
    /\ sem' = IF g_phase_ctx.batch_sem # 0 THEN "none" ELSE sem
    /\ g_phase_ctx' = [g_phase_ctx EXCEPT !.timers = [s \in Slots |-> 0],
                                          !.batch_timer = 0,
                                          !.batch_sem = 0]
    /\ i' = i + 1
    /\ pc' = "loop_check"
    /\ sensor_read' = NoReading
    /\ UNCHANGED << skip_returned, stop_called, noop_skip, created, stale_target, cycle_vars, has_triggered, cycle_running, target_phase_index,
                    current_phase_index, gpio_vars, elapsed_us, num_phases,
                    cmd_vars, runs_left, faults_left >>

\* A run_cycle that leaves the index of its last phase behind.
IndexKept(index) == index

\* run_cycle after the loop: "current_phase_index = 0;"
IndexAtEnd(index) == 0

\* end of run_cycle; the task deletes itself
RunEnd ==
    /\ pc = "run_end"
    /\ cmd_pc = "idle"
    /\ cycle_running' = FALSE
    /\ current_phase_index' = IndexAtEnd(current_phase_index)
    /\ pc' = "idle"
    /\ UNCHANGED << hist_vars, cycle_vars, has_triggered, target_phase_index, gpio_vars,
                    elapsed_us, g_phase_ctx, sem, esp_timers, i, num_phases,
                    cmd_vars, runs_left, faults_left >>

\* ------------------------------------------------- the esp_timer context
DueEvent(h) ==
    /\ esp_timers[h].st = "armed"
    /\ esp_timers[h].cb = "event"
    /\ esp_timers[h].rem = 0

\* event_timer_cb, "mark event done"
MarkEventDone(ctx) ==
    IF ctx.remaining_events > 0
    THEN [ctx EXCEPT !.remaining_events = @ - 1,
                     !.active = IF ctx.remaining_events - 1 = 0 THEN FALSE ELSE @]
    ELSE ctx

\* event_timer_cb(arg): arg points into g_phase_ctx.events
EventTimerFire(h) ==
    /\ DueEvent(h)
    /\ LET arg == esp_timers[h].arg
           ev  == IF arg <= Len(g_phase_ctx.events) THEN g_phase_ctx.events[arg]
                  ELSE ZeroEvent
       IN  /\ esp_timers' = [esp_timers EXCEPT ![h].st = "expired"]
           /\ IF ev.pin = GPIO_NUM_NC
              THEN UNCHANGED << gpio_vars, g_phase_ctx >>
              ELSE /\ gpio' = IF ev.pin \in PinSet
                              THEN [gpio EXCEPT ![ev.pin] = ev.level] ELSE gpio
                   /\ gpio_shadow' =
                        [k \in 1..NUM_COMPONENTS |->
                           IF all_pins[k] = ev.pin THEN ev.level ELSE gpio_shadow[k]]
                   /\ g_phase_ctx' = MarkEventDone(g_phase_ctx)
    /\ UNCHANGED << hist_vars, cycle_vars, has_triggered, cycle_running, target_phase_index,
                    current_phase_index, elapsed_us, sem, pc, i, num_phases,
                    cmd_vars, runs_left, faults_left >>

\* A boundary callback that deletes the batch's timers itself, in timer
\* context, before it gives the semaphore.
BatchTimerFireSweeps(h) ==
    /\ esp_timers[h].st = "armed"
    /\ esp_timers[h].cb = "batch"
    /\ esp_timers[h].rem = 0
    /\ \A k \in Handles : ~DueEvent(k)
    /\ esp_timers' = SweepLoop([esp_timers EXCEPT ![h].st = "expired"],
                               g_phase_ctx.timers, 1)
    /\ g_phase_ctx' = [g_phase_ctx EXCEPT !.timers = [s \in Slots |-> 0]]
    /\ sem' = IF g_phase_ctx.batch_sem # 0 THEN "given" ELSE sem
    /\ UNCHANGED << hist_vars, cycle_vars, has_triggered, cycle_running, target_phase_index,
                    current_phase_index, gpio_vars, elapsed_us, pc, i,
                    num_phases, cmd_vars, runs_left, faults_left >>

\* load_next_batch_timer_cb: gives the semaphore, if there is one.  Timers
\* are dispatched in alarm order: the boundary timer is started after the
\* event timers of its batch, so it runs after those due at the same time.
BatchTimerFire(h) ==
    /\ esp_timers[h].st = "armed"
    /\ esp_timers[h].cb = "batch"
    /\ esp_timers[h].rem = 0
    /\ \A k \in Handles : ~DueEvent(k)
    /\ esp_timers' = [esp_timers EXCEPT ![h].st = "expired"]
    /\ sem' = IF g_phase_ctx.batch_sem # 0 THEN "given" ELSE sem
    /\ UNCHANGED << hist_vars, cycle_vars, has_triggered, cycle_running, target_phase_index,
                    current_phase_index, gpio_vars, elapsed_us, g_phase_ctx, pc, i,
                    num_phases, cmd_vars, runs_left, faults_left >>

\* The clock advances by MIN_DELAY_US, unless a timer is due: the esp_timer
\* task has the highest priority and runs a due callback first.
Tick ==
    /\ \A h \in Handles : ~(esp_timers[h].st = "armed" /\ esp_timers[h].rem = 0)
    /\ \/ elapsed_us < HorizonUs
       \/ \E h \in Handles : esp_timers[h].st = "armed"
    /\ elapsed_us' = Min(elapsed_us + MIN_DELAY_US, HorizonUs)
    /\ esp_timers' = [h \in Handles |->
                        IF esp_timers[h].st = "armed"
                        THEN [esp_timers[h] EXCEPT !.rem = @ - MIN_DELAY_US]
                        ELSE esp_timers[h]]
    /\ UNCHANGED << hist_vars, cycle_vars, has_triggered, cycle_running, target_phase_index,
                    current_phase_index, gpio_vars, g_phase_ctx, sem, pc, i,
                    num_phases, cmd_vars, runs_left, faults_left >>

\* ------------------------------------------------- the command task
\* ws_handler "skip_phase" (force_off_all = true), or a direct call of
\* cycle_skip_current_phase(force_off_all)
CmdSkip(force_off_all) ==
    /\ cmd_pc = "idle"
    /\ cmds_left > 0
    /\ cmds_left' = cmds_left - 1
    /\ cmd_force' = force_off_all
    /\ cmd_pc' = "skip_enter"
    /\ UNCHANGED << hist_vars, cycle_vars, has_triggered, cycle_running, target_phase_index,
                    current_phase_index, gpio_vars, elapsed_us, g_phase_ctx, sem,
                    esp_timers, pc, i, num_phases, runs_left, faults_left >>

\* cycle_stop, up to its call of cycle_skip_current_phase(true)
CmdStop ==
    /\ cmd_pc = "idle"
    /\ cmds_left > 0
    /\ cmds_left' = cmds_left - 1
    /\ IF ~cycle_running
       THEN UNCHANGED << target_phase_index, cmd_pc, cmd_force, stop_called >>
       ELSE /\ target_phase_index' = STOP_TARGET
            /\ stop_called' = TRUE
            /\ cmd_force' = TRUE
            /\ cmd_pc' = "skip_enter"
    /\ UNCHANGED << skip_returned, noop_skip, created, sensor_read, stale_target, cycle_vars, has_triggered, cycle_running, current_phase_index,
                    gpio_vars, elapsed_us, g_phase_ctx, sem, esp_timers, pc, i,
                    num_phases, runs_left, faults_left >>

\* cycle_skip_to_phase(phase_index), up to its call of
\* cycle_skip_current_phase(true)
CmdSkipTo(phase_index) ==
    /\ cmd_pc = "idle"
    /\ cmds_left > 0
    /\ cmds_left' = cmds_left - 1
    /\ IF ~cycle_running
       THEN UNCHANGED << target_phase_index, cmd_pc, cmd_force >>
       ELSE /\ target_phase_index' = phase_index
            /\ cmd_force' = TRUE
            /\ cmd_pc' = "skip_enter"
    /\ UNCHANGED << hist_vars, cycle_vars, has_triggered, cycle_running, current_phase_index,
                    gpio_vars, elapsed_us, g_phase_ctx, sem, esp_timers, pc, i,
                    num_phases, runs_left, faults_left >>

\* A skip without the early return.
SkipNeverReturnsEarly(ctx) == FALSE

\* cycle_skip_current_phase: "if (!g_phase_ctx.active) return;"
SkipReturnsEarly(ctx) == ~ctx.active

\* cycle_skip_current_phase: the active check and the sweep of the timer array
SkipEnter ==
    /\ cmd_pc = "skip_enter"
    /\ IF SkipReturnsEarly(g_phase_ctx)
       THEN /\ cmd_pc' = IF cmd_data = NoData THEN "idle" ELSE "ws_load"
            /\ noop_skip' = TRUE
            /\ UNCHANGED << esp_timers, g_phase_ctx >>
       ELSE /\ esp_timers' = SweepLoop(esp_timers, g_phase_ctx.timers, 1)
            /\ g_phase_ctx' = [g_phase_ctx EXCEPT !.timers = [s \in Slots |-> 0]]
            /\ cmd_pc' = "skip_batch_timer"
            /\ UNCHANGED noop_skip
    /\ UNCHANGED << skip_returned, stop_called, created, sensor_read, stale_target, cycle_vars, has_triggered, cycle_running, target_phase_index,
                    current_phase_index, gpio_vars, elapsed_us, sem, pc, i,
                    num_phases, cmd_force, cmds_left, runs_left, faults_left >>

\* cycle_skip_current_phase: the boundary timer and the semaphore
SkipBatchTimer ==
    /\ cmd_pc = "skip_batch_timer"
    /\ esp_timers' = SweepBatchTimer(esp_timers, g_phase_ctx)
    /\ sem' = IF g_phase_ctx.batch_sem # 0 THEN "none" ELSE sem
    /\ g_phase_ctx' = [g_phase_ctx EXCEPT !.batch_timer = 0, !.batch_sem = 0]
    /\ cmd_pc' = "skip_finish"
    /\ UNCHANGED << hist_vars, cycle_vars, has_triggered, cycle_running, target_phase_index,
                    current_phase_index, gpio_vars, elapsed_us, pc, i, num_phases,
                    cmd_force, cmds_left, runs_left, faults_left >>

\* cycle_skip_current_phase: the outputs and active = false; the call returns
SkipFinish ==
    /\ cmd_pc = "skip_finish"
    /\ ForceOff(cmd_force)
    /\ g_phase_ctx' = [g_phase_ctx EXCEPT !.active = FALSE]
    /\ cmd_pc' = IF cmd_data = NoData THEN "idle" ELSE "ws_load"
    /\ skip_returned' = (skip_returned \/ cmd_force)
    /\ UNCHANGED << stop_called, noop_skip, created, sensor_read, stale_target, cycle_vars, has_triggered, cycle_running, target_phase_index,
                    current_phase_index, elapsed_us, sem, esp_timers, pc, i,
                    num_phases, cmd_force, cmds_left, runs_left, faults_left >>

\* ------------------------------------------------- the loader's callers
\* The globals after a load call that left res.
LoadApply(res) ==
    /\ load_rets' = Append(load_rets, res.ret)
    /\ reloaded' = (reloaded \/ (res.unloaded /\ cycle_running))
    /\ IF res.unloaded
       THEN /\ g_phases' = res.left.phases
            /\ g_num_phases' = Len(res.left.phases)
            /\ has_triggered' = [k \in 1..Len(res.left.phases) |-> FALSE]
            /\ g_motor_cfg_used' = res.left.cfg_used
            /\ g_motor_steps_used' = res.left.steps_used
            /\ g_sensor_trigger_used' = res.left.trig_used
            /\ g_motor_cfg_pool' = res.left.cfg_pool
       ELSE UNCHANGED << g_phases, g_num_phases, has_triggered, pool_vars >>

\* A task calls cycle_load_from_json_str while no cycle runs (app_main does
\* at boot).
CallLoadFromJsonStr(desc) ==
    /\ cmd_pc = "idle"
    /\ pc = "idle"
    /\ cmds_left > 0
    /\ cmds_left' = cmds_left - 1
    /\ LoadApply(cycle_load_from_json_str(desc))
    /\ UNCHANGED << hist_vars, cmd_data, extra_tasks, cmd_toggle, cycle_running,
                    target_phase_index, current_phase_index, gpio_vars, elapsed_us,
                    g_phase_ctx, sem, esp_timers, pc, i, num_phases, cmd_pc,
                    cmd_force, runs_left, faults_left >>

\* A task calls load_cycle_from_cjson while no cycle runs.
CallLoadFromCjson(desc) ==
    /\ cmd_pc = "idle"
    /\ pc = "idle"
    /\ cmds_left > 0
    /\ cmds_left' = cmds_left - 1
    /\ LoadApply(load_cycle_from_cjson(desc))
    /\ UNCHANGED << hist_vars, cmd_data, extra_tasks, cmd_toggle, cycle_running,
                    target_phase_index, current_phase_index, gpio_vars, elapsed_us,
                    g_phase_ctx, sem, esp_timers, pc, i, num_phases, cmd_pc,
                    cmd_force, runs_left, faults_left >>

\* ws_handler "write_json", up to its call of cycle_skip_current_phase(true)
CmdWriteJson(data) ==
    /\ cmd_pc = "idle"
    /\ cmds_left > 0
    /\ cmds_left' = cmds_left - 1
    /\ IF data.kind = "missing_data"
       THEN UNCHANGED << cmd_pc, cmd_force, cmd_data >>
       ELSE /\ cmd_data' = data
            /\ cmd_force' = TRUE
            /\ cmd_pc' = "skip_enter"
    /\ UNCHANGED << hist_vars, g_phases, g_num_phases, load_rets, reloaded,
                    extra_tasks, cmd_toggle, pool_vars, has_triggered, cycle_running, target_phase_index,
                    current_phase_index, gpio_vars, elapsed_us, g_phase_ctx, sem,
                    esp_timers, pc, i, num_phases, runs_left, faults_left >>

\* ws_handler "write_json" after the skip: the checks of "data" and
\* "data.phases", then load_cycle_from_cjson(data)
WsLoad ==
    /\ cmd_pc = "ws_load"
    /\ IF cmd_data.kind \in {"not_object", "no_phases"}
       THEN UNCHANGED << g_phases, g_num_phases, has_triggered, load_rets, reloaded,
                         pool_vars >>
       ELSE LoadApply(load_cycle_from_cjson(cmd_data))
    /\ cmd_data' = NoData
    /\ cmd_pc' = "idle"
    /\ UNCHANGED << hist_vars, extra_tasks, cmd_toggle, cycle_running, target_phase_index,
                    current_phase_index, gpio_vars, elapsed_us, g_phase_ctx, sem,
                    esp_timers, pc, i, num_phases, cmd_force, cmds_left,
                    runs_left, faults_left >>

\* ws_handler "start_cycle" while a cycle_runner task exists: rejected if
\* cycle_is_running(), else cycle_run_loaded_cycle, which creates a task
\* unless no cycle is loaded.
CmdStartCycle ==
    /\ cmd_pc = "idle"
    /\ pc # "idle"
    /\ cmds_left > 0
    /\ cmds_left' = cmds_left - 1
    /\ extra_tasks' = IF cycle_running \/ g_num_phases = 0
                      THEN extra_tasks ELSE extra_tasks + 1
    /\ UNCHANGED << hist_vars, g_phases, g_num_phases, load_rets, cmd_data,
                    cmd_toggle, reloaded, pool_vars, has_triggered, cycle_running, target_phase_index,
                    current_phase_index, gpio_vars, elapsed_us, g_phase_ctx, sem,
                    esp_timers, pc, i, num_phases, cmd_pc, cmd_force, runs_left,
                    faults_left >>

\* ws_handler "toggle_gpio": gpio_set_level(pin, state).  The handler's task
\* can be preempted by the esp_timer task before it updates the shadow.
CmdToggleSet(pin_num, pin_state) ==
    /\ cmd_pc = "idle"
    /\ cmds_left > 0
    /\ cmds_left' = cmds_left - 1
    /\ gpio' = IF pin_num \in PinSet THEN [gpio EXCEPT ![pin_num] = pin_state]
               ELSE gpio
    /\ cmd_toggle' = [pin |-> pin_num, state |-> pin_state]
    /\ cmd_pc' = "toggle_shadow"
    /\ UNCHANGED << hist_vars, g_phases, g_num_phases, load_rets, cmd_data,
                    reloaded, extra_tasks, pool_vars, has_triggered, cycle_running,
                    target_phase_index, current_phase_index, gpio_shadow,
                    elapsed_us, g_phase_ctx, sem, esp_timers, pc, i, num_phases,
                    cmd_force, runs_left, faults_left >>

\* ws_handler "toggle_gpio": the loop that writes gpio_shadow[i] for the
\* entry of all_pins that is the pin, if there is one
ToggleShadow ==
    /\ cmd_pc = "toggle_shadow"
    /\ gpio_shadow' = [k \in 1..NUM_COMPONENTS |->
                         IF all_pins[k] = cmd_toggle.pin THEN cmd_toggle.state
                         ELSE gpio_shadow[k]]
    /\ cmd_toggle' = NoToggle
    /\ cmd_pc' = "idle"
    /\ UNCHANGED << hist_vars, g_phases, g_num_phases, load_rets, cmd_data,
                    reloaded, extra_tasks, pool_vars, has_triggered, cycle_running,
                    target_phase_index, current_phase_index, gpio,
                    elapsed_us, g_phase_ctx, sem, esp_timers, pc, i, num_phases,
                    cmd_force, cmds_left, runs_left, faults_left >>

\* ------------------------------------------------------- specifications
\* cycle_runner has the lowest priority: it runs only while no command is in
\* progress (the guard cmd_pc = "idle" of each of its actions).
RunnerStep ==
    \/ RunCycleBegin \/ LoopCheck \/ PhaseBegin \/ LoadFirstBatch \/ BatchCheck
    \/ BusyWait \/ SemTake \/ SemTakeDeleted \/ BatchSweep \/ BatchLoad
    \/ Poll \/ Sleep \/ Cleanup \/ RunEnd

TimerStep ==
    \E h \in Handles : EventTimerFire(h) \/ BatchTimerFire(h)

CmdStep ==
    \/ \E force_off_all \in BOOLEAN : CmdSkip(force_off_all)
    \/ CmdStop
    \/ \E phase_index \in 0..g_num_phases : CmdSkipTo(phase_index)
    \/ SkipEnter \/ SkipBatchTimer \/ SkipFinish

Next == StartCycle \/ RunnerStep \/ TimerStep \/ Tick \/ CmdStep

Spec == Init /\ [][Next]_vars

\* The scheduler alone: no command arrives, so the semaphore is never deleted
\* under the waiting task.
SchedRunnerStep ==
    \/ RunCycleBegin \/ LoopCheck \/ PhaseBegin \/ LoadFirstBatch \/ BatchCheck
    \/ BusyWait \/ SemTake \/ BatchSweep \/ BatchLoad
    \/ Poll \/ Sleep \/ Cleanup \/ RunEnd

NextSched == StartCycle \/ SchedRunnerStep \/ TimerStep \/ Tick

SpecSched == InitSched /\ [][NextSched]_vars

\* The scheduler with allocation failures, every task and the timer
\* dispatcher being scheduled and time passing.
SpecFault ==
    /\ InitSched
    /\ [][NextSched]_vars
    /\ WF_vars(SchedRunnerStep)
    /\ WF_vars(TimerStep)
    /\ WF_vars(Tick)

\* The nominal run: no command arrives and no allocation fails.  The tasks
\* and the timer dispatcher keep being scheduled and time keeps passing.
NominalCycles ==
    { << PhSorted, PhSingle >>, << PhUnsorted, PhSingle >>,
      << PhEmpty, PhSingle >> }

InitNominal == InitWith(NominalCycles, 0, 0)

NominalRunnerStep ==
    \/ RunCycleBegin \/ LoopCheck \/ PhaseBegin \/ LoadFirstBatch \/ BatchCheck
    \/ SemTake \/ BatchSweep \/ BatchLoad
    \/ Poll \/ Sleep \/ Cleanup \/ RunEnd

NextNominal == StartCycle \/ NominalRunnerStep \/ TimerStep \/ Tick

SpecNominal ==
    /\ InitNominal
    /\ [][NextNominal]_vars
    /\ WF_vars(NominalRunnerStep)
    /\ WF_vars(TimerStep)
    /\ WF_vars(Tick)

\* Commands arrive while a cycle runs; no allocation fails.  Every task that
\* can take a step eventually takes one.
InitCmd == InitWith(Cycles, MaxCmds, 0)

CmdRunnerStep ==
    \/ RunCycleBegin \/ LoopCheck \/ PhaseBegin \/ LoadFirstBatch \/ BatchCheck
    \/ SemTake \/ SemTakeDeleted \/ BatchSweep \/ BatchLoad
    \/ Poll \/ Sleep \/ Cleanup \/ RunEnd

SkipStep == SkipEnter \/ SkipBatchTimer \/ SkipFinish

NextCmd == StartCycle \/ CmdRunnerStep \/ TimerStep \/ Tick \/ CmdStep

SpecCmd ==
    /\ InitCmd
    /\ [][NextCmd]_vars
    /\ WF_vars(CmdRunnerStep)
    /\ WF_vars(TimerStep)
    /\ WF_vars(Tick)
    /\ WF_vars(SkipStep)

\* The same with the batch-transition sweep of cycle_runner taken statement
\* by statement: the task that runs ws_handler has the higher priority and
\* preempts cycle_runner between any two statements.
SweepRunnerStep == CmdRunnerStep \/ BatchSweepDelete \/ BatchSweepNull

NextSweep == StartCycle \/ SweepRunnerStep \/ TimerStep \/ Tick \/ CmdStep

SpecSweep ==
    /\ InitCmd
    /\ [][NextSweep]_vars
    /\ WF_vars(SweepRunnerStep)
    /\ WF_vars(TimerStep)
    /\ WF_vars(Tick)
    /\ WF_vars(SkipStep)

\* Loads and start requests arrive, while a cycle runs or not; no allocation
\* fails.
LoadCycles == { << PhSorted, PhSingle >> }

CallInputs ==
    { Desc("null"), Desc("unparsable"), Desc("no_phases"),
      OkDesc(<< PhTrig >>), OkDesc(<< PhSingle, PhSorted, PhSingle >>) }

WsInputs ==
    { Desc("missing_data"), Desc("not_object"), Desc("no_phases"),
      OkDesc(<< PhTrig >>), OkDesc(<< PhSingle, PhSorted, PhSingle >>) }

InitLoad == InitWith(LoadCycles, MaxCmds, 0)

LoadStep ==
    \/ \E desc \in CallInputs : CallLoadFromJsonStr(desc)
    \/ \E desc \in CallInputs \ {Desc("unparsable")} : CallLoadFromCjson(desc)
    \/ \E data \in WsInputs : CmdWriteJson(data)
    \/ WsLoad
    \/ CmdStartCycle

NextLoad == StartCycle \/ CmdRunnerStep \/ TimerStep \/ Tick \/ SkipStep \/ LoadStep

SpecLoad ==
    /\ InitLoad
    /\ [][NextLoad]_vars
    /\ WF_vars(CmdRunnerStep)
    /\ WF_vars(TimerStep)
    /\ WF_vars(Tick)
    /\ WF_vars(SkipStep)
    /\ WF_vars(WsLoad)

\* Manual toggles and skip and stop commands arrive while a cycle runs.
\* FLOW_SENSOR_PIN is a pin that is none of the eight outputs.
FLOW_SENSOR_PIN == 0

ToggleCycles == { << PhSorted, PhSingle >> }

TogglePins == { COLD_VALVE_PIN, FLOW_SENSOR_PIN }

InitToggle == InitWith(ToggleCycles, MaxCmds, 0)

ToggleStep ==
    \/ \E pin_num \in TogglePins, pin_state \in {0, 1} : CmdToggleSet(pin_num, pin_state)
    \/ ToggleShadow

NextToggle ==
    StartCycle \/ CmdRunnerStep \/ TimerStep \/ Tick \/ CmdStep \/ ToggleStep

SpecToggle ==
    /\ InitToggle
    /\ [][NextToggle]_vars
    /\ WF_vars(CmdRunnerStep)
    /\ WF_vars(TimerStep)
    /\ WF_vars(Tick)
    /\ WF_vars(SkipStep)
    /\ WF_vars(ToggleShadow)

\* The loader alone: loads follow one another while no cycle runs, with
\* descriptions that exceed each pool of the loader.
PhManyComps ==
    MkPhase("many", << Simple("Cold Valve", 0, 1), Simple("Drain Pump", 1, 1),
                       Simple("Hot Valve", 2, 1) >>, NULL)

PhTwoMotors ==
    MkPhase("motors",
            << Motor(0, 1, << Step(1, 0, "cw"), Step(1, 0, "ccw"), Step(1, 1, "cw") >>),
               Motor(4, 2, << Step(1, 0, "cw"), Step(1, 0, "ccw") >>) >>,
            Trigger("Pressure", 1, FALSE))

PoolCycles ==
    { << PhTwoMotors, PhTwoMotors >>,
      << PhManyComps, PhSingle, PhSorted, PhSingle >>,
      << PhTrig, PhTrigMulti >>,
      << PhBig >> }

PoolInputs ==
    { Desc("null"), Desc("unparsable"), Desc("no_phases") }
        \cup { OkDesc(c) : c \in PoolCycles }

PoolLoads == MaxCmds + 1

InitPool == InitWith(SchedCycles, PoolLoads, 0)

NextPool ==
    \/ \E desc \in PoolInputs : CallLoadFromJsonStr(desc)
    \/ \E desc \in PoolInputs \ {Desc("unparsable")} : CallLoadFromCjson(desc)
    \/ \E data \in PoolInputs \ {Desc("null"), Desc("unparsable")} : CmdWriteJson(data)
    \/ SkipEnter
    \/ WsLoad

SpecPool == InitPool /\ [][NextPool]_vars

\* The timeline builder alone: a cycle of one phase drawn from every
\* combination of up to two components, started up to the point where
\* run_phase_with_esp_timer has built the timeline into g_phase_ctx.events.
BuildPatterns ==
    { << >>, << Step(100, 50, "cw") >>, << Step(1, 0, "cw"), Step(2, 3, "ccw") >> }

BuildComponents ==
    { Simple(id, st, du) : id \in {"Cold Valve", "Drain Pump", "Bogus"},
                           st \in {0, 2}, du \in {1, 2000} }
    \cup { Motor(st, r, pat) : st \in {0, 5}, r \in {0, 1, 2}, pat \in BuildPatterns }

BuildPhases ==
    { [MkPhase("build", comps, NULL) EXCEPT !.start_time_ms = base] :
        base \in {0, 7},
        comps \in { << >> } \cup { << a >> : a \in BuildComponents }
                  \cup { << a, b >> : a \in BuildComponents, b \in BuildComponents } }

BuildCycles == { << ph >> : ph \in BuildPhases }

InitBuild == InitRuns(BuildCycles, 0, 0, MaxRuns)

NextBuild == StartCycle \/ RunCycleBegin \/ LoopCheck \/ PhaseBegin

SpecBuild == InitBuild /\ [][NextBuild]_vars

\* The timeline builder at its capacity: phases of a motor and a valve, in
\* either order, whose expansion reaches or exceeds MAX_EVENTS_PER_PHASE.
CutPatterns ==
    { << Step(1, 0, "cw"), Step(0, 0, "ccw") >>,
      << Step(1, 0, "cw"), Step(1, 1, "ccw"), Step(2, 0, "cw") >> }

CutMotors == { Motor(st, r, pat) : st \in {0, 1}, r \in {1, 2, 3}, pat \in CutPatterns }

CutValves ==
    { Simple(id, st, 1) : id \in {"Cold Valve", "Drain Pump", "Bogus"}, st \in {0, 2} }

CutPhases ==
    { MkPhase("cut", comps, NULL) :
        comps \in { << m >> : m \in CutMotors }
                  \cup { << v, m >> : v \in CutValves, m \in CutMotors }
                  \cup { << m, v >> : v \in CutValves, m \in CutMotors } }

CutCycles == { << ph >> : ph \in CutPhases }

InitCut == InitRuns(CutCycles, 0, 0, MaxRuns)

SpecCut == InitCut /\ [][NextBuild]_vars

\* The trigger monitor: a first phase whose trigger is of any kind and
\* direction, with no command and no allocation failure.
SenseTriggers ==
    { Trigger(type, 1, trigger_above) :
        type \in {"RPM", "PRESSURE", "UNKNOWN"}, trigger_above \in BOOLEAN }

SenseCycles ==
    { << [ph EXCEPT !.sensor_trigger = tr], PhSingle >> :
        ph \in {PhTrig, PhTrigMulti}, tr \in SenseTriggers }

InitSense == InitWith(SenseCycles, 0, 0)

SpecSense ==
    /\ InitSense
    /\ [][NextNominal]_vars
    /\ WF_vars(NominalRunnerStep)
    /\ WF_vars(TimerStep)
    /\ WF_vars(Tick)

\* Cycles with a sensor trigger, started once more than in the other
\* specifications without being loaded again, with one command fewer.
TrigCycles == { << PhTrig, PhSingle >>, << PhTrigMulti, PhSingle >> }

InitTrig == InitRuns(TrigCycles, MaxCmds - 1, 0, MaxRuns + 1)

SpecTrig ==
    /\ InitTrig
    /\ [][NextCmd]_vars
    /\ WF_vars(CmdRunnerStep)
    /\ WF_vars(TimerStep)
    /\ WF_vars(Tick)
    /\ WF_vars(SkipStep)


\* ------------------------------------------------------------------ claims
LiveEventTimers ==
    { h \in Handles : esp_timers[h].st # "free" /\ esp_timers[h].cb = "event" }

AllOutputsOff ==
    /\ \A p \in PinSet : gpio[p] = 1
    /\ \A k \in 1..NUM_COMPONENTS : gpio_shadow[k] = 1

\* An event timer's callback runs in this step.
EventFires(h) ==
    /\ esp_timers[h].st = "armed"
    /\ esp_timers[h].cb = "event"
    /\ esp_timers'[h].st = "expired"

InPhase == pc \in {"load_first", "batch_check", "busy_wait", "sem_take",
                   "batch_sweep", "batch_load", "poll", "sleep", "hung"}

\* C1: while a phase runs, the number of live event timers (created and not
\* yet deleted) never exceeds BATCH_SIZE, whatever the event count and the
\* interleaving of event firing, boundary firing and batch advancement.
C1_BatchBound == Cardinality(LiveEventTimers) <= BATCH_SIZE

\* A phase of 8 x BATCH_SIZE events, in its third batch or later, with a full
\* batch of live timers of which some have yet to fire.
C1_Witness ==
    /\ g_phase_ctx.num_events = 8 * BATCH_SIZE
    /\ g_phase_ctx.current_batch_idx >= 2
    /\ Cardinality(LiveEventTimers) = BATCH_SIZE
    /\ \E h \in LiveEventTimers : esp_timers[h].st = "armed"

IsSorted(events, n) ==
    \A a \in 1..n : \A b \in 1..n :
        a < b => events[a].fire_time_us <= events[b].fire_time_us

\* the least k with k * BATCH_SIZE >= n
BatchesFor(n) ==
    CHOOSE k \in 0..n : k * BATCH_SIZE >= n /\ \A j \in 0..n : j * BATCH_SIZE >= n => k <= j

\* The phase has ended on its own: every event fired, every batch was loaded,
\* the phase is inactive and the task has left the batch loop and the poll.
PhaseCompleted ==
    /\ pc = "cleanup"
    /\ g_phase_ctx.remaining_events = 0
    /\ ~g_phase_ctx.active
    /\ g_phase_ctx.batches_total = BatchesFor(g_phase_ctx.num_events)
    /\ g_phase_ctx.current_batch_idx + 1 >= g_phase_ctx.batches_total

\* C2: a phase whose N events are in non-decreasing fire-time order, started
\* with no skip, stop or allocation failure, has all its events fire, in
\* ceil(N / BATCH_SIZE) batches, and becomes inactive, for every N >= 0.
C2_SortedPhaseCompletes ==
    (pc = "load_first" /\ IsSorted(g_phase_ctx.events, g_phase_ctx.num_events))
        ~> PhaseCompleted

\* The same for the phases that have at least one event.
C2_NonEmptySortedPhaseCompletes ==
    (/\ pc = "load_first"
     /\ g_phase_ctx.num_events > 0
     /\ IsSorted(g_phase_ctx.events, g_phase_ctx.num_events))
        ~> PhaseCompleted

\* C3: for any phase, sorted or not, the sweep at a batch transition deletes
\* no event timer that is still armed (created, started and not yet fired).
C3_TransitionKeepsUnfired ==
    [][ (pc = "batch_sweep" /\ pc' = "batch_load") =>
          \A h \in Handles :
              (esp_timers[h].cb = "event" /\ esp_timers[h].st = "armed")
                  => esp_timers'[h].st = "armed"
      ]_vars

\* The same, for the phases whose events are in non-decreasing order.
C3_SortedTransitionKeepsUnfired ==
    [][ (/\ pc = "batch_sweep" /\ pc' = "batch_load"
         /\ IsSorted(g_phase_ctx.events, g_phase_ctx.num_events)) =>
          \A h \in Handles :
              (esp_timers[h].cb = "event" /\ esp_timers[h].st = "armed")
                  => esp_timers'[h].st = "armed"
      ]_vars

\* C4: remaining_events is decremented exactly once per fired event, changes
\* in no other way during a phase and never goes below zero; it reaches zero
\* at most once per phase, with the event that fires last, and exactly then
\* the event dispatcher turns active from true to false.
C4_CompletionOnce ==
    [][ /\ g_phase_ctx'.remaining_events >= 0
        /\ \A h \in Handles :
             EventFires(h) =>
               /\ g_phase_ctx.remaining_events >= 1
               /\ g_phase_ctx'.remaining_events = g_phase_ctx.remaining_events - 1
        /\ (g_phase_ctx'.remaining_events # g_phase_ctx.remaining_events) =>
               \/ \E h \in Handles : EventFires(h)
               \/ (pc = "phase_begin" /\ pc' = "load_first")
        /\ (\E h \in Handles : EventFires(h)) =>
               /\ (g_phase_ctx'.remaining_events = 0) =>
                     (g_phase_ctx.active /\ ~g_phase_ctx'.active)
               /\ (g_phase_ctx'.remaining_events # 0) =>
                     (g_phase_ctx'.active = g_phase_ctx.active)
      ]_vars

\* C5: when a batch after the first is loaded at time D after phase start,
\* each event timer it creates is started with delay fire_time - D if
\* fire_time > D and with the 1 ms minimum otherwise, and, unless
\* esp_timer_create fails, every event of the batch gets a timer.
C5_AbsoluteDelay ==
    [][ (pc = "batch_load" /\ pc' = "batch_check") =>
          LET first == g_phase_ctx'.current_batch_idx * BATCH_SIZE
          IN  \A s \in Slots :
                /\ (g_phase_ctx'.timers[s] # 0) =>
                     LET fire == g_phase_ctx.events[first + s].fire_time_us
                         tmr  == esp_timers'[g_phase_ctx'.timers[s]]
                     IN  /\ tmr.arg = first + s
                         /\ tmr.st = "armed"
                         /\ tmr.rem = IF fire > elapsed_us THEN fire - elapsed_us
                                      ELSE 1000
                /\ (faults_left' = faults_left /\ first + s <= g_phase_ctx.num_events)
                     => g_phase_ctx'.timers[s] # 0
      ]_vars

\* A later batch has just been loaded 2 ms after phase start; its event due
\* at 4 ms got the delay 2 ms, its event due at 3 ms the delay 1 ms.
C5_Witness ==
    /\ pc = "batch_check"
    /\ g_phase_ctx.current_batch_idx = 1
    /\ elapsed_us = 2000
    /\ \E h \in LiveEventTimers :
         /\ esp_timers[h].st = "armed"
         /\ g_phase_ctx.events[esp_timers[h].arg].fire_time_us = 4000
         /\ esp_timers[h].rem = 2000

\* C6: when a skip or a stop finds the phase active, cycle_runner eventually
\* leaves that phase and comes back to the head of the phase loop, where it
\* starts the next phase or ends the cycle.
C6_SkipReleasesRunner ==
    (cmd_pc = "skip_batch_timer") ~> (pc = "loop_check")

C8_QuietAfterSkip ==
    [][ (skip_returned /\ skip_returned') =>
          /\ LiveHandles(esp_timers') \subseteq LiveHandles(esp_timers)
          /\ \A h \in Handles : ~EventFires(h)
          /\ AllOutputsOff'
      ]_vars

\* C9: once cycle_stop has been called on a running cycle, no phase is
\* started in that run.
C9_NoPhaseAfterStop ==
    [][ stop_called => ~(pc = "phase_begin" /\ pc' = "load_first") ]_vars

\* C10: when the phase loop ends because it observes the stop request, every
\* output and shadow entry is at the OFF level.
C10_StopLeavesOutputsOff ==
    [][ (/\ pc = "loop_check" /\ pc' = "run_end"
         /\ i < num_phases
         /\ target_phase_index = STOP_TARGET) => AllOutputsOff'
      ]_vars

\* C11: a skip-to request for a phase of the cycle is served before the cycle
\* ends: the phase loop never leaves while target_phase_index holds an index
\* k with 0 <= k < num_phases, whatever the phase the request arrived in.
C11_SkipToServed ==
    [][ (pc = "loop_check" /\ pc' = "run_end") =>
          ~(target_phase_index >= 0 /\ target_phase_index < num_phases)
      ]_vars

\* C12: a skip-to request whose index is not below the phase count changes
\* nothing: in particular the phase loop never ends on it while phases remain.
C12_OutOfRangeIgnored ==
    [][ (/\ pc = "loop_check" /\ pc' = "run_end"
         /\ target_phase_index >= num_phases) => i >= num_phases
      ]_vars

\* C13: a call of cycle_skip_current_phase that finds no phase active returns
\* with every timer, the context, the semaphore, the outputs, the shadow, the
\* trigger latches and the target index as they were, for either force value.
C13_InactiveSkipNoOp ==
    [][ (cmd_pc = "skip_enter" /\ cmd_pc' # "skip_enter" /\ ~g_phase_ctx.active) =>
          /\ cmd_pc' = "idle"
          /\ UNCHANGED << esp_timers, g_phase_ctx, sem, gpio, gpio_shadow,
                          target_phase_index, current_phase_index, has_triggered,
                          cycle_running, i, pc >>
      ]_vars

\* A second skip in a row has returned: the first one, forced, ended the
\* phase, the second one found it inactive, and the outputs are still OFF.
C13_Witness ==
    /\ noop_skip
    /\ skip_returned
    /\ cmd_pc = "idle"
    /\ ~g_phase_ctx.active
    /\ AllOutputsOff

\* The sensor poll of cycle_runner reports "should skip" in this step.
TriggerFires == pc = "poll" /\ g_phase_ctx.active /\ pc' = "cleanup"

\* C14: the sensor trigger of a phase never reports "should skip" while less
\* than the cooldown has elapsed since the start of that phase, whatever the
\* sensor reads during the cooldown.
C14_NoTriggerInCooldown ==
    [][ TriggerFires => elapsed_us >= PHASE_SENSOR_COOLDOWN_MS * 1000 ]_vars

\* The trigger has fired after the cooldown and cut the phase short: events
\* were still to fire, and the poll has skipped the phase.
C14_Witness ==
    /\ pc = "cleanup"
    /\ current_phase_index > 0
    /\ has_triggered[current_phase_index]
    /\ elapsed_us >= PHASE_SENSOR_COOLDOWN_MS * 1000
    /\ g_phase_ctx.remaining_events > 0
    /\ ~g_phase_ctx.active

\* C15: a latch has_triggered that is set stays set, and the trigger of a
\* phase whose latch is set never reports "should skip" again: not later in
\* the activation, not when the phase is entered again by skip-to-phase, not
\* in a later run of the loaded cycle.
C15_TriggerLatches ==
    [][ /\ \A p \in 1..g_num_phases : has_triggered[p] => has_triggered'[p]
        /\ TriggerFires =>
              /\ ~has_triggered[current_phase_index]
              /\ has_triggered'[current_phase_index]
      ]_vars

\* The cycle runs for the second time; the phase whose trigger fired in the
\* first run is active again, its cooldown is over and it is being polled.
C15_Witness ==
    /\ runs_left < MaxRuns
    /\ pc \in {"poll", "sleep"}
    /\ g_phase_ctx.active
    /\ current_phase_index > 0
    /\ has_triggered[current_phase_index]
    /\ elapsed_us >= PHASE_SENSOR_COOLDOWN_MS * 1000

\* The phase in progress has a trigger that may fire at the next evaluation:
\* it is active, configured, not latched and out of its cooldown.
TriggerArmed ==
    /\ g_phase_ctx.active
    /\ cycle_running
    /\ current_phase_index > 0
    /\ g_phases[current_phase_index].sensor_trigger # NULL
    /\ ~has_triggered[current_phase_index]
    /\ elapsed_us >= PHASE_SENSOR_COOLDOWN_MS * 1000

\* C16: while the trigger of the active phase is armed, cycle_runner is never
\* left blocked on the batch semaphore while time passes: it evaluates the
\* trigger at every polling tick, also between the batches of a phase.
C16_ArmedTriggerIsPolled ==
    [][ (TriggerArmed /\ elapsed_us' > elapsed_us) =>
          ~(pc = "sem_take" /\ sem = "empty")
      ]_vars

\* ------------------------------------------------- the timeline builder
\* The phase whose timeline run_phase_with_esp_timer has just built.
BuiltPhase == g_phases[i + 1]
Built == pc = "load_first"

IsMotorComponent(c) == c.has_motor /\ c.motor_cfg # NULL
KnownRole(compId) == \E k \in 1..Len(COMPONENT_PIN_MAP) : COMPONENT_PIN_MAP[k].compId = compId
PinOf(compId) == COMPONENT_PIN_MAP[CHOOSE k \in 1..Len(COMPONENT_PIN_MAP) :
                                     COMPONENT_PIN_MAP[k].compId = compId].pin

\* The cursor of a motor component before its k-th step (k from 0): the start
\* offset plus step_duration + pause_duration of every earlier step.
StepAt(mc, k) == mc.pattern[(k % Len(mc.pattern)) + 1]
RECURSIVE Cursor(_, _)
Cursor(c, k) ==
    IF k = 0 THEN c.start_ms
    ELSE LET st == StepAt(c.motor_cfg[1], k - 1)
         IN  Cursor(c, k - 1) + st.step_time_ms + st.pause_time_ms

\* The expansion of a motor component as the specification words it.
ExpMotor(c, phase_start) ==
    LET mc == c.motor_cfg[1]
        n  == 3 * mc.repeat_times * Len(mc.pattern)
    IN  [ e \in 1..n |->
            LET k  == (e - 1) \div 3
                st == StepAt(mc, k)
                t  == phase_start + Cursor(c, k)
            IN  CASE (e - 1) % 3 = 0 ->
                       Event(t * 1000, "EVENT_ON", MOTOR_DIRECTION_PIN,
                             IF st.direction = "ccw" THEN 1 ELSE 0)
                  [] (e - 1) % 3 = 1 -> Event(t * 1000, "EVENT_ON", MOTOR_ON_PIN, 0)
                  [] OTHER -> Event((t + st.step_time_ms) * 1000, "EVENT_OFF",
                                    MOTOR_ON_PIN, 1) ]

ExpComponent(phase, c) ==
    IF IsMotorComponent(c) THEN ExpMotor(c, phase.start_time_ms)
    ELSE IF KnownRole(c.compId)
         THEN << Event((phase.start_time_ms + c.start_ms) * 1000, "EVENT_ON",
                       PinOf(c.compId), 0),
                 Event((phase.start_time_ms + c.start_ms + c.duration_ms) * 1000,
                       "EVENT_OFF", PinOf(c.compId), 1) >>
         ELSE << >>

\* The concatenation of the components' events in declaration order.
RECURSIVE ExpTimelineFrom(_, _)
ExpTimelineFrom(phase, n) ==
    IF n > Len(phase.components) THEN << >>
    ELSE ExpComponent(phase, phase.components[n]) \o ExpTimelineFrom(phase, n + 1)

ExpTimeline(phase) == ExpTimelineFrom(phase, 1)

\* C17: when the capacity suffices, the timeline built for a phase is the
\* concatenation, in declaration order, of each component's events: ON and OFF
\* of a resolvable simple component, the expansion of a motor component,
\* nothing for a component of unknown role.
C17_TimelineIsConcatenation ==
    (Built /\ Len(ExpTimeline(BuiltPhase)) <= MAX_EVENTS_PER_PHASE) =>
        /\ g_phase_ctx.events = ExpTimeline(BuiltPhase)
        /\ g_phase_ctx.num_events = Len(ExpTimeline(BuiltPhase))

\* one simple component (start 0, duration 2000) and a motor (repeat 2, one
\* step of 100 ms with a 50 ms pause): 2 + 6 = 8 events
C17_Witness ==
    /\ Built
    /\ BuiltPhase.start_time_ms = 0
    /\ BuiltPhase.components =
         << Simple("Cold Valve", 0, 2000), Motor(0, 2, << Step(100, 50, "cw") >>) >>
    /\ g_phase_ctx.num_events = 8
    /\ [e \in 1..8 |-> g_phase_ctx.events[e].fire_time_us] =
         << 0, 2000000, 0, 0, 100000, 150000, 150000, 250000 >>
    /\ g_phase_ctx.events[1].pin = COLD_VALVE_PIN
    /\ g_phase_ctx.events[3].pin = MOTOR_DIRECTION_PIN

C19_TruncationIsPrefix ==
    Built =>
      LET full == build_timeline_from_phase(BuiltPhase, BuildCapacity)
      IN  /\ Len(full) < BuildCapacity
          /\ \A C \in 0..BuildCapacity :
               build_timeline_from_phase(BuiltPhase, C) =
                 SubSeq(full, 1, Min(C, Len(full)))
          /\ g_phase_ctx.events = SubSeq(full, 1, Min(MAX_EVENTS_PER_PHASE, Len(full)))

\* a phase whose unlimited timeline is longer than the context's capacity
C19_Witness ==
    /\ Built
    /\ Len(build_timeline_from_phase(BuiltPhase, BuildCapacity)) > MAX_EVENTS_PER_PHASE
    /\ g_phase_ctx.num_events = MAX_EVENTS_PER_PHASE
    /\ g_phase_ctx.events[MAX_EVENTS_PER_PHASE].pin = MOTOR_DIRECTION_PIN

\* C20: a phase whose timeline is empty ends by itself, with no skip and no
\* stop, and the phase loop goes on to start the next phase.
C20_EmptyPhaseAdvances ==
    (pc = "load_first" /\ g_phase_ctx.num_events = 0 /\ current_phase_index = 1)
        ~> (current_phase_index = 2)

\* ------------------------------------------------- allocation failures
\* The batch just loaded has an event whose esp_timer_create failed: its slot
\* of the handle array was left empty.
EventsInBatch ==
    Min(BATCH_SIZE,
        g_phase_ctx.num_events - g_phase_ctx.current_batch_idx * BATCH_SIZE)

EventCreateFailed ==
    /\ pc = "batch_check"
    /\ \E s \in 1..EventsInBatch : g_phase_ctx.timers[s] = 0

\* The batch just loaded is not the last one and its boundary timer could not
\* be created.
BoundaryCreateFailed ==
    /\ pc = "batch_check"
    /\ g_phase_ctx.batch_sem # 0
    /\ g_phase_ctx.current_batch_idx + 1 < g_phase_ctx.batches_total
    /\ g_phase_ctx.batch_timer = 0

\* C21: when the timer of an event cannot be created, the phase still becomes
\* inactive and run_cycle leaves its wait loop, so the cycle advances.
C21_EventCreateFailureDoesNotStall ==
    (EventCreateFailed /\ g_phase_ctx.batch_sem # 0 /\ ~BoundaryCreateFailed)
        ~> (pc = "cleanup")

\* C22: when the boundary timer of a batch that is not the last cannot be
\* created, cycle_runner still loads the next batch.
C22_BoundaryCreateFailureFallsBack ==
    BoundaryCreateFailed ~> (pc = "batch_load")

\* ------------------------------------------------------ loads and starts
\* A call of a load function returns ret in this step.
LoadReturns(ret) ==
    /\ Len(load_rets') = Len(load_rets) + 1
    /\ load_rets'[Len(load_rets')] = ret

\* C23: a load that returns an error leaves the loaded cycle as it was: the
\* phase count, the phase data and the triggers' latches.
C23_FailedLoadKeepsCycle ==
    [][ LoadReturns("ESP_FAIL") =>
          /\ g_num_phases' = g_num_phases
          /\ g_phases' = g_phases
          /\ has_triggered' = has_triggered
      ]_vars

\* C24: once write_json has loaded a cycle while a cycle was running, the run
\* in progress starts no further phase.
C24_NoPhaseAfterReload ==
    [][ (reloaded /\ pc = "loop_check") => pc' # "phase_begin" ]_vars

\* C25: no cycle_runner task is created while another one exists.
C25_SingleRunner == extra_tasks = 0

\* ------------------------------------------------- timers between phases
\* C26: when a phase starts and when the cycle has ended, no esp_timer object
\* of an earlier phase exists any more, however that phase ended.
C26_NoTimerAcrossPhases ==
    (pc \in {"phase_begin", "load_first", "run_end", "idle"}) =>
        LiveHandles(esp_timers) = {}

\* the second phase is about to start after a forced skip cut the first one
\* short, with events still pending
C26_Witness ==
    /\ pc = "phase_begin"
    /\ i = 1
    /\ skip_returned
    /\ g_phase_ctx.remaining_events > 0
    /\ LiveHandles(esp_timers) = {}

\* ------------------------------------------------------ boundary timers
\* C27: once the timers of the final batch of a phase have been created the
\* phase has no boundary timer; a single-batch phase never has one.
C27_NoBoundaryAfterLastBatch ==
    (/\ pc \in {"batch_check", "poll", "sleep", "cleanup"}
     /\ g_phase_ctx.current_batch_idx + 1 >= g_phase_ctx.batches_total)
        => g_phase_ctx.batch_timer = 0

\* C28: the boundary timer of every batch, the first included, is started
\* with delay (fire time of the batch's last event) - (time since phase
\* start) + 1 ms, or 1 ms when that fire time is already past.
C28_BoundaryDelay ==
    [][ (/\ pc \in {"load_first", "batch_load"}
         /\ pc' = "batch_check"
         /\ g_phase_ctx'.batch_timer # 0) =>
          LET last == Min((g_phase_ctx'.current_batch_idx + 1) * BATCH_SIZE,
                          g_phase_ctx.num_events)
              fire == g_phase_ctx.events[last].fire_time_us
          IN  esp_timers'[g_phase_ctx'.batch_timer].rem =
                IF fire > elapsed_us THEN (fire - elapsed_us) + 1000 ELSE 1000
      ]_vars

\* The callback of boundary timer h runs in this step.
BoundaryFires(h) ==
    /\ esp_timers[h].st = "armed"
    /\ esp_timers[h].cb = "batch"
    /\ esp_timers'[h].st = "expired"

C30_StoreIntoEmptySlot ==
    [][ \A s \in Slots :
          (g_phase_ctx'.timers[s] # 0 /\ g_phase_ctx'.timers[s] # g_phase_ctx.timers[s]) =>
             /\ g_phase_ctx.timers[s] = 0
             /\ \A h \in LiveEventTimers :
                  \E t \in Slots : g_phase_ctx'.timers[t] = h
      ]_vars

\* the second batch has been stored into the slots the first batch used
C30_Witness ==
    /\ pc = "batch_check"
    /\ g_phase_ctx.current_batch_idx = 1
    /\ \A s \in Slots : /\ g_phase_ctx.timers[s] # 0
                        /\ esp_timers[g_phase_ctx.timers[s]].arg = BATCH_SIZE + s

\* The event indices (1-based) of batch b (0-based) of a phase of n events:
\* the array indices [b x BATCH_SIZE, min((b + 1) x BATCH_SIZE, n)).
BatchRange(b, n) == (b * BATCH_SIZE + 1)..Min((b + 1) * BATCH_SIZE, n)

\* The event indices for which this step creates and starts a timer.
NewEventArgs ==
    { esp_timers'[h].arg :
        h \in { k \in Handles : /\ esp_timers[k].st = "free"
                                 /\ esp_timers'[k].st = "armed"
                                 /\ esp_timers'[k].cb = "event" } }

\* This step is the creation of a batch's timers by the driving task.
BatchCreated == pc \in {"load_first", "batch_load"} /\ pc' = "batch_check"

\* No event index ever has more than one timer created for it during a
\* phase, and none beyond the timeline has one.
C31_AtMostOnce ==
    \A k \in 1..MAX_EVENTS_PER_PHASE :
        /\ created[k] <= 1
        /\ k > g_phase_ctx.num_events => created[k] = 0

\* The batches are loaded in order 0, 1, ... and a batch's step creates
\* timers only for the indices of its range.
C31_BatchesInOrder ==
    [][ BatchCreated =>
          /\ g_phase_ctx'.current_batch_idx =
                IF pc = "load_first" THEN 0 ELSE g_phase_ctx.current_batch_idx + 1
          /\ NewEventArgs \subseteq
                BatchRange(g_phase_ctx'.current_batch_idx, g_phase_ctx.num_events) ]_vars

\* C31: batches_total is ceil(N / BATCH_SIZE); batch b covers exactly the
\* event indices [b x B, min((b + 1) x B, N)), so that every batch but the
\* last has B events and the last has N - (batches_total - 1) x B >= 1; over
\* a phase every event index has a timer created at most once and, with no
\* skip, stop or failure, exactly once.
C31_BatchArithmetic ==
    /\ [](InPhase => /\ g_phase_ctx.batches_total = BatchesFor(g_phase_ctx.num_events)
                      /\ C31_AtMostOnce)
    /\ C31_BatchesInOrder
    /\ [][ BatchCreated =>
            LET b == g_phase_ctx'.current_batch_idx
                n == g_phase_ctx.num_events
                total == g_phase_ctx.batches_total
            IN  /\ NewEventArgs = BatchRange(b, n)
                /\ b + 1 < total => Cardinality(NewEventArgs) = BATCH_SIZE
                /\ b + 1 = total =>
                      /\ Cardinality(NewEventArgs) = n - (total - 1) * BATCH_SIZE
                      /\ Cardinality(NewEventArgs) >= 1 ]_vars
    /\ (pc = "load_first")
          ~> (\A k \in 1..g_phase_ctx.num_events : created[k] = 1)

\* A phase of 2 x BATCH_SIZE + 1 events whose last batch, of one event, has
\* been loaded: every index has had its timer.
C31_Witness ==
    /\ pc = "batch_check"
    /\ g_phase_ctx.num_events = 2 * BATCH_SIZE + 1
    /\ g_phase_ctx.batches_total = 3
    /\ g_phase_ctx.current_batch_idx = 2
    /\ \A k \in 1..g_phase_ctx.num_events : created[k] = 1
    /\ \E h \in Handles : esp_timers[h].st = "armed" /\ esp_timers[h].arg = 2 * BATCH_SIZE + 1

\* The run has ended after the phase loop went through every phase.
RanAllPhases ==
    /\ pc = "idle"
    /\ i = num_phases
    /\ ~cycle_running

\* The phase loop takes the phases in index order: a phase is started as
\* phase i + 1 of the run with the loop index i, and the loop index only
\* moves from i to i + 1, by the cleanup of phase i, once that phase is
\* inactive and has no timer left.
C32_InOrderAfterCleanup ==
    [][ /\ (pc = "loop_check" /\ pc' = "phase_begin") =>
              (i' = i /\ current_phase_index' = i + 1 /\ i < num_phases)
        /\ (i' # i /\ pc # "run_begin") =>
              /\ i' = i + 1
              /\ pc = "cleanup"
              /\ ~g_phase_ctx.active
              /\ LiveHandles(esp_timers') = {}
        /\ (pc = "run_begin" /\ pc' # pc) => i' = 0 ]_vars

\* C32: with no skip, stop or sensor trigger the phase loop runs phases
\* 0 .. n-1 in index order, each exactly once, phase i + 1 only after phase i
\* is inactive and cleaned up, and after the last phase the cycle reports not
\* running.
C32_PhasesRunInOrder ==
    /\ C32_InOrderAfterCleanup
    /\ (pc = "run_begin") ~> RanAllPhases

\* The same for the cycle whose phases are non-empty and in time order.
C32_SortedCycleRunsInOrder ==
    /\ C32_InOrderAfterCleanup
    /\ (pc = "run_begin" /\ g_phases = << PhSorted, PhSingle >>) ~> RanAllPhases

\* ------------------------------------------------------------ the pools
RECURSIVE SumTo(_, _)
SumTo(f, n) == IF n = 0 THEN 0 ELSE f[n] + SumTo(f, n - 1)

MotorsOfPhase(p) ==
    { k \in 1..Len(p.components) : p.components[k].motor_cfg # NULL }

RECURSIVE StepsOfPhase(_, _)
StepsOfPhase(p, k) ==
    IF k = 0 THEN 0
    ELSE (IF p.components[k].motor_cfg # NULL
          THEN Len(p.components[k].motor_cfg[1].pattern) ELSE 0)
         + StepsOfPhase(p, k - 1)

\* What the loaded cycle alone takes from each pool.
MotorsLoaded ==
    SumTo([p \in 1..Len(g_phases) |-> Cardinality(MotorsOfPhase(g_phases[p]))],
          Len(g_phases))
StepsLoaded ==
    SumTo([p \in 1..Len(g_phases) |->
             StepsOfPhase(g_phases[p], Len(g_phases[p].components))],
          Len(g_phases))
TriggersLoaded ==
    Cardinality({ p \in 1..Len(g_phases) : g_phases[p].sensor_trigger # NULL })

\* C33: after any sequence of loads the phase count, each phase's component
\* count and the motor-config, pattern-step and sensor-trigger pools are
\* within their limits, every motor config's pattern slice lies inside the
\* used part of the step pool, and the pool counts are those of the loaded
\* cycle alone: each load resets them.
C33_PoolsWithinLimits ==
    /\ g_num_phases = Len(g_phases)
    /\ g_num_phases <= MAX_PHASES
    /\ \A p \in 1..Len(g_phases) :
          Len(g_phases[p].components) <= MAX_COMPONENTS_PER_PHASE
    /\ g_motor_cfg_used <= MAX_MOTOR_CONFIGS
    /\ g_motor_steps_used <= MAX_MOTOR_STEPS
    /\ g_sensor_trigger_used <= MAX_SENSOR_TRIGGERS
    /\ Len(g_motor_cfg_pool) = g_motor_cfg_used
    /\ \A k \in 1..Len(g_motor_cfg_pool) :
          LET mc == g_motor_cfg_pool[k]
          IN  IF mc.has_slice
              THEN mc.steps_start + mc.pattern_len <= g_motor_steps_used
              ELSE mc.pattern_len = 0
    /\ g_motor_cfg_used = MotorsLoaded
    /\ g_motor_steps_used = StepsLoaded
    /\ g_sensor_trigger_used = TriggersLoaded

\* After a third load, of a cycle that asks for four motor configs, ten
\* pattern steps and two triggers: every pool is at its limit, the second
\* pattern was cut short and the fourth motor left without a config.
C33_Witness ==
    /\ Len(load_rets) = 3
    /\ load_rets[3] = "ESP_OK"
    /\ g_num_phases = 2
    /\ g_motor_cfg_used = MAX_MOTOR_CONFIGS
    /\ g_motor_steps_used = MAX_MOTOR_STEPS
    /\ g_sensor_trigger_used = MAX_SENSOR_TRIGGERS
    /\ g_motor_cfg_pool[2].pattern_len = 1
    /\ ~g_phases[2].components[2].has_motor
    /\ g_phases[2].sensor_trigger = NULL

\* ------------------------------------------------------------ the shadow
\* C34: whenever no output-writing operation is in mid-execution, the shadow
\* of each of the eight outputs equals the level last driven onto it.
C34_ShadowMatchesOutputs ==
    cmd_pc # "toggle_shadow" =>
        \A k \in 1..NUM_COMPONENTS : gpio_shadow[k] = gpio[all_pins[k]]

\* cycle_runner evaluates the armed trigger of the active phase in this step.
PollsArmed == TriggerArmed /\ pc = "poll" /\ pc' # "poll"

\* The reading is strictly above, or strictly below, the threshold.
ReadingAbove(reading, threshold) ==
    reading.whole > threshold \/ (reading.whole = threshold /\ reading.frac)

ReadingBelow(reading, threshold) == reading.whole < threshold

\* What a poll of the trigger reports for the reading, by its kind and
\* direction.
ShouldSkip(trigger, reading) ==
    /\ trigger.type \in {"RPM", "PRESSURE"}
    /\ IF trigger.trigger_above
       THEN ReadingAbove(reading, trigger.threshold)
       ELSE ReadingBelow(reading, trigger.threshold)

\* C35: after the cooldown, a poll of a trigger that has not fired reports
\* "should skip" exactly when the kind is RPM or PRESSURE and the reading of
\* the sensor is strictly above the threshold (direction above) or strictly
\* below it (direction below), and has_triggered is set exactly by the polls
\* that report it.
C35_TriggerCondition ==
    [][ PollsArmed =>
          LET trigger == g_phases[current_phase_index].sensor_trigger[1]
          IN  /\ TriggerFires <=> ShouldSkip(trigger, sensor_read')
              /\ has_triggered'[current_phase_index] <=> TriggerFires
      ]_vars

\* The same for the readings without a fractional part.
C35_WholeReadings ==
    [][ PollsArmed /\ ~sensor_read'.frac =>
          LET trigger == g_phases[current_phase_index].sensor_trigger[1]
          IN  /\ TriggerFires <=> ShouldSkip(trigger, sensor_read')
              /\ has_triggered'[current_phase_index] <=> TriggerFires
      ]_vars

\* has_triggered is set by the polls that report "should skip" and by no
\* others, whatever the reading.
C35_LatchedExactlyOnFire ==
    [][ PollsArmed => (has_triggered'[current_phase_index] <=> TriggerFires) ]_vars

\* The handles a sweep of the timer array stops and deletes.
HandlesSwept == { g_phase_ctx.timers[s] : s \in Slots } \ {0}

\* cycle_skip_current_phase, called by another task, sweeps the timer array,
\* or its boundary timer, in this step.
SkipSweepsArray == cmd_pc = "skip_enter" /\ cmd_pc' = "skip_batch_timer"

SkipSweepsBoundary == cmd_pc = "skip_batch_timer" /\ cmd_pc' = "skip_finish"

\* cycle_runner stops and deletes handles in this step: in its batch
\* transition, or between two phases.
RunnerSweeps ==
    \/ pc = "batch_sweep" /\ pc' \in {"batch_sweep_null", "batch_load"}
    \/ pc = "cleanup" /\ pc' = "loop_check"

\* C36: no timer handle is stopped and deleted twice: whenever the skip/stop
\* path in another task, the batch-transition sweep or the sweep between
\* phases stops and deletes the handles of the timer array or the boundary
\* timer, each of these handles is a timer that has not been deleted.
C36_NoDoubleDelete ==
    [][ /\ SkipSweepsArray \/ RunnerSweeps =>
            \A h \in HandlesSwept : esp_timers[h].st # "free"
        /\ SkipSweepsBoundary \/ (RunnerSweeps /\ pc' # "batch_sweep_null") =>
            (g_phase_ctx.batch_timer # 0 =>
                esp_timers[g_phase_ctx.batch_timer].st # "free")
      ]_vars

\* The event switches an actuator on: it drives an output other than the
\* direction line of the motor to the active level.
Actuates(ev) == ev.level = 0 /\ ev.pin # MOTOR_DIRECTION_PIN

\* Event j switches off the output that event k drives.
Deactivates(events, j, k) == events[j].pin = events[k].pin /\ events[j].level = 1

\* C37: in every timeline build_timeline_from_phase returns, truncated at
\* the capacity or not, each event that switches an output on is followed, in
\* array order, by an event that switches the same output off.
C37_OnFollowedByOff ==
    Built =>
      \A k \in 1..g_phase_ctx.num_events :
         Actuates(g_phase_ctx.events[k]) =>
            \E j \in (k + 1)..g_phase_ctx.num_events :
               Deactivates(g_phase_ctx.events, j, k)

\* The same for the timelines the capacity did not cut.
C37_UncutOnFollowedByOff ==
    (Built /\ Len(build_timeline_from_phase(BuiltPhase, BuildCapacity))
                 <= MAX_EVENTS_PER_PHASE) =>
      \A k \in 1..g_phase_ctx.num_events :
         Actuates(g_phase_ctx.events[k]) =>
            \E j \in (k + 1)..g_phase_ctx.num_events :
               Deactivates(g_phase_ctx.events, j, k)

\* run_cycle is entered in this step; its loop head is evaluated in this step.
RunEntered == pc = "run_begin" /\ pc' = "loop_check"

LoopHeadTaken == pc = "loop_check" /\ pc' # "loop_check"

\* A skip-to target or the stop sentinel is recorded in this step.
TargetRecorded ==
    target_phase_index' # target_phase_index /\ target_phase_index' # NO_TARGET

\* C38: a skip-to target or a stop sentinel left recorded by a run that ended
\* has no effect on the next run.  The next run starts at phase 0 with
\* nothing recorded; from then on a target or sentinel is recorded only by a
\* command issued while this run is running; and while nothing is recorded
\* the loop enters the phase of its index, one after the other.
C38_StaleTargetIgnored ==
    [][ /\ RunEntered => target_phase_index' = NO_TARGET /\ i' = 0
        /\ TargetRecorded =>
              cycle_running /\ pc # "run_begin" /\ cmd_pc = "idle"
                /\ cmd_pc' = "skip_enter"
        /\ LoopHeadTaken /\ target_phase_index = NO_TARGET /\ i < num_phases =>
              pc' = "phase_begin" /\ current_phase_index' = i + 1 /\ i' = i
      ]_vars

\* A run that found a stop sentinel or a target recorded by the run before
\* has run its phase 0 and is entering its second phase, with no stop
\* requested during it.
C38_Witness ==
    /\ stale_target
    /\ runs_left < MaxRuns
    /\ pc = "phase_begin"
    /\ i = 1
    /\ current_phase_index = 2
    /\ target_phase_index = NO_TARGET
    /\ ~stop_called

\* run_cycle is not in progress: it was never entered, or it has left its
\* loop and returned.
RunReturned == pc \in {"idle", "run_begin"}

C39_ExitWindow == pc = "run_end" => ~cycle_running /\ current_phase_index = 0

====
